---- MODULE Spec2Model ----
(***************************************************************************)
(* Model of the PiggyPLAN client-side game store                           *)
(* (src/src/components/store/gameStore.ts).                                *)
(*                                                                         *)
(* The store is a module-level singleton: `state` (the in-memory           *)
(* GameState), the `listeners` array, and two localStorage keys (the game  *)
(* blob and the pet-ages blob).  JavaScript runs every mutator to          *)
(* completion on one thread, but a mutator is not atomic for its           *)
(* observers: persist() assigns the state, writes storage and then calls   *)
(* every listener, and setNeed() may perform a second persist() after the  *)
(* first one has notified.  The model therefore keeps the JavaScript call  *)
(* stack explicitly: one frame per running persist() notification loop.    *)
(* A mutator call is one step (everything up to and including the          *)
(* assignment and storage write of its persist), every listener            *)
(* invocation is one step, and the code after the forEach is one step.     *)
(*                                                                         *)
(* Numbers are integers: every Math.round / Number() in the source is the  *)
(* identity on them.  uid() and Date.now() are modelled by the creation    *)
(* sequence number of a transaction.                                       *)
(***************************************************************************)
EXTENDS Integers, Sequences, FiniteSets, TLC

(***************************************************************************)
(* state      the module variable `state` (gameStore.ts:222)               *)
(* storage    localStorage[STORAGE_KEY]: <<>> when absent, <<blob>> else   *)
(* petAges    localStorage[PET_AGES_KEY], a map from pet to age            *)
(* listeners  the module array `listeners` (gameStore.ts:220)              *)
(* stack      the running mutator calls, innermost last                    *)
(* txCreated  how many transactions have been created (uid, Date.now)      *)
(* last       history variable, see the call stack below                   *)
(* closures   the unsubscribe functions callers hold: the callback each    *)
(*            one closes over, and whether it has been called              *)
(* commits    how many persist() calls the running outermost mutator call  *)
(*            has made so far (0 when nothing runs)                        *)
(* seen       for each callback, the number of the commit it was handed    *)
(*            last during the running outermost mutator call               *)
(* quota      the localStorage keys whose setItem throws at the moment     *)
(* peer       the in-memory state of a second store instance (another tab  *)
(*            on the same storage): <<>> when there is none, <<state>> else*)
(* page       the pages that use the store (Articles.tsx, Home.tsx): the   *)
(*            map page's component state and timers, the clock, and the    *)
(*            store calls a running handler has still to make              *)
(***************************************************************************)
VARIABLES state, storage, petAges, listeners, stack, txCreated, last,
          closures, commits, seen, quota, peer, page

vars == <<state, storage, petAges, listeners, stack, txCreated, last,
          closures, commits, seen, quota, peer, page>>

(* the environment of the store: storage faults, the other tab, the pages *)
env == <<quota, peer, page>>

(***************************************************************************)
(* Bounds of the model (not program constants).                            *)
(***************************************************************************)
MaxDays == 2
MaxMoney == 3
MaxTx == 1
MaxListeners == 1
MaxDepth == 2
MaxOwned == 1
MaxBalance == 6
MaxLedger == 4
MixWindow == 2
MaxOverflow == 3
MaxTotal == 5
MaxRegs == 2
MaxNow == 12000

(* the clock stops MaxCycles cycles of the map page after it started *)
MaxCycles == 4

(***************************************************************************)
(* Types (gameStore.ts:4-18)                                               *)
(***************************************************************************)
AnimalIds == {"pig", "dog", "cat", "fox", "bunny", "unicorn", "snake", "panda", "dragon"}

AccessoryIds == {"collar", "leash", "headband"}

NeedIds == {"hunger", "thirst", "health", "fun", "sleep"}

TX_CAP == 250

NEED_MAX == 100

Max(a, b) == IF a >= b THEN a ELSE b

Min(a, b) == IF a <= b THEN a ELSE b

Abs(a) == IF a >= 0 THEN a ELSE -a

(* {...a, ...b}: object spread, keys of b win *)
Spread(a, b) == [k \in (DOMAIN a) \cup (DOMAIN b) |-> IF k \in DOMAIN b THEN b[k] ELSE a[k]]

EmptyObj == [k \in {} |-> 0]

(* JSON null as the value of an object-valued field *)
Null == [null |-> TRUE]

(* v ?? {} *)
OrEmpty(v) == IF v = Null THEN EmptyObj ELSE v

(* the numbers Infinity (-Infinity is its negative) and NaN, and JSON null  *)
(* as the value of a number-valued field: three integers no arithmetic of   *)
(* the model produces                                                       *)
Infinity == 1000000000

NaN == 1500000000

NullNumber == -2000000000

(* a + b of two numbers *)
JsAdd(a, b) ==
    IF a = NaN \/ b = NaN THEN NaN
    ELSE IF a \in {Infinity, -Infinity}
         THEN IF b = -a THEN NaN ELSE a
    ELSE IF b \in {Infinity, -Infinity} THEN b
    ELSE a + b

(* Math.max(a, b) of two numbers *)
JsMax(a, b) == IF a = NaN \/ b = NaN THEN NaN ELSE Max(a, b)

(* JSON null as the value of a string-valued field and of an array-valued  *)
(* field: a string that is no pet identifier, a sequence that is no list of *)
(* transactions                                                             *)
NullString == "null"

NullArray == <<Null>>

(* Number(v) || 0 of a number or null, and v || 0 of a number *)
NumberOrZero(v) == IF v \in {NullNumber, NaN} THEN 0 ELSE v

(* v ?? 0 of a number or null *)
OrZero(v) == IF v = NullNumber THEN 0 ELSE v

(* the number n + 1/2 for an integer n: an integer of a band of its own,    *)
(* around Half(0), which no arithmetic of the model reaches                 *)
Half(n) == 100000000 + n

(* Math.floor(v) of a number *)
Floor(v) == IF 2 * v > Half(0) /\ 2 * v < 3 * Half(0) THEN v - Half(0) ELSE v

(* JSON.stringify of a number, as JSON.parse reads it back: a number that   *)
(* is not finite is written as null                                         *)
jsonNumber(v) == IF v \in {Infinity, -Infinity, NaN} THEN NullNumber ELSE v

jsonTransactions(txs) ==
    [k \in 1..Len(txs) |-> [txs[k] EXCEPT !.amount = jsonNumber(@)]]

(* mutant: the transactions are not written *)
stringify_withoutTransactions(next) ==
    [next EXCEPT !.needs = [n \in DOMAIN @ |-> jsonNumber(@[n])],
                 !.ownedAccessories = [a \in DOMAIN @ |-> jsonNumber(@[a])],
                 !.money = jsonNumber(@),
                 !.daysPlayed = jsonNumber(@),
                 !.transactions = <<>>]

(* JSON.stringify(next), as JSON.parse reads it back: every number of the   *)
(* state that is not finite is written as null                              *)
stringify(next) ==
    [next EXCEPT !.needs = [n \in DOMAIN @ |-> jsonNumber(@[n])],
                 !.ownedAccessories = [a \in DOMAIN @ |-> jsonNumber(@[a])],
                 !.money = jsonNumber(@),
                 !.daysPlayed = jsonNumber(@),
                 !.transactions = jsonTransactions(@)]

(* A JSON value that is no object and not null is written with its type:   *)
(* [number |-> 5], [boolean |-> TRUE], [string |-> <<"a", "b", "c">>] (the  *)
(* characters of "abc"), [array |-> <<1, 2>>].  An object is a record       *)
(* without any of these four fields.                                        *)

(* the index properties "0", "1", ... of an array or a string *)
Indexed(xs) ==
    [k \in {ToString(i - 1) : i \in DOMAIN xs} |->
        xs[CHOOSE i \in DOMAIN xs : ToString(i - 1) = k]]

(* `v ? .. : ..` of a JSON value that is not null *)
Truthy(v) ==
    CASE "number" \in DOMAIN v -> v.number # 0
      [] "boolean" \in DOMAIN v -> v.boolean
      [] "string" \in DOMAIN v -> v.string # <<>>
      [] OTHER -> TRUE

(* the own enumerable properties of a JSON value, which are what {...v}     *)
(* copies and what v.field reads for the fields of a state                  *)
Props(v) ==
    CASE "number" \in DOMAIN v -> EmptyObj
      [] "boolean" \in DOMAIN v -> EmptyObj
      [] "string" \in DOMAIN v -> Indexed(v.string)
      [] "array" \in DOMAIN v -> Indexed(v.array)
      [] OTHER -> v

(* mutant: the slice is lost, the list grows without bound *)
PrependSlice_noSlice(x, xs, n) == <<x>> \o xs

(* [x, ...xs].slice(0, n) *)
PrependSlice(x, xs, n) == SubSeq(<<x>> \o xs, 1, Min(Len(xs) + 1, n))

(***************************************************************************)
(* Default state (gameStore.ts:75-110)                                     *)
(***************************************************************************)
defaultNeeds == [n \in NeedIds |-> 0]

defaultBadges ==
    [accessory_1 |-> FALSE, accessory_2 |-> FALSE, accessory_4 |-> FALSE,
     days_5 |-> FALSE, days_10 |-> FALSE, days_15 |-> FALSE,
     days_25 |-> FALSE, days_50 |-> FALSE, days_100 |-> FALSE]

defaultState ==
    [needs |-> defaultNeeds,
     money |-> 0,
     animalId |-> "dog",
     ownedPets |-> [p \in AnimalIds |-> p \in {"pig", "dog", "cat", "fox", "bunny"}],
     ownedAccessories |-> [a \in AccessoryIds |-> 0],
     equippedAccessories |-> [a \in AccessoryIds |-> FALSE],
     badges |-> defaultBadges,
     daysPlayed |-> 0,
     transactions |-> <<>>]

(***************************************************************************)
(* Helpers (gameStore.ts:128-214)                                          *)
(***************************************************************************)
(* mutant: the upper bound of the clamp is lost *)
clampNeed_noUpperBound(v) ==
    LET n == IF v = NullNumber THEN 0 ELSE v
    IN  IF n \in {Infinity, -Infinity, NaN} THEN 0 ELSE Max(0, n)

(* n = Number(v); 0 when n is not finite *)
clampNeed(v) ==
    LET n == IF v = NullNumber THEN 0 ELSE v
    IN  IF n \in {Infinity, -Infinity, NaN} THEN 0 ELSE Max(0, Min(NEED_MAX, n))

clampNeeds(needs) ==
    LET base == Spread(defaultNeeds, OrEmpty(needs))
    IN  [n \in NeedIds |-> clampNeed(base[n])]

(* mutant: money and daysPlayed are taken as they are, without the floor at 0 *)
normalize_keepsNegatives(s) ==
    LET o == Props(s)
        sub(f) == IF f \in DOMAIN o THEN OrEmpty(o[f]) ELSE EmptyObj
        top == Spread(defaultState, o)
    IN  [top EXCEPT
            !.ownedPets = Spread(defaultState.ownedPets, sub("ownedPets")),
            !.ownedAccessories = Spread(defaultState.ownedAccessories, sub("ownedAccessories")),
            !.equippedAccessories = Spread(defaultState.equippedAccessories, sub("equippedAccessories")),
            !.badges = Spread(defaultState.badges, sub("badges")),
            !.needs = clampNeeds(sub("needs")),
            !.transactions = IF top.transactions = NullArray THEN <<>> ELSE top.transactions,
            !.money = top.money,
            !.daysPlayed = top.daysPlayed,
            !.animalId = IF top.animalId = NullString THEN defaultState.animalId
                         ELSE top.animalId]

(* mutant: loading counts as a day *)
normalize_countsADay(s) ==
    LET o == Props(s)
        sub(f) == IF f \in DOMAIN o THEN OrEmpty(o[f]) ELSE EmptyObj
        top == Spread(defaultState, o)
    IN  [top EXCEPT
            !.ownedPets = Spread(defaultState.ownedPets, sub("ownedPets")),
            !.ownedAccessories = Spread(defaultState.ownedAccessories, sub("ownedAccessories")),
            !.equippedAccessories = Spread(defaultState.equippedAccessories, sub("equippedAccessories")),
            !.badges = Spread(defaultState.badges, sub("badges")),
            !.needs = clampNeeds(sub("needs")),
            !.transactions = IF top.transactions = NullArray THEN <<>> ELSE top.transactions,
            !.money = Max(0, NumberOrZero(top.money)),
            !.daysPlayed = Max(0, NumberOrZero(top.daysPlayed)) + 1,
            !.animalId = IF top.animalId = NullString THEN defaultState.animalId
                         ELSE top.animalId]

normalize(s) ==
    LET o == Props(s)
        sub(f) == IF f \in DOMAIN o THEN OrEmpty(o[f]) ELSE EmptyObj
        top == Spread(defaultState, o)
    IN  [top EXCEPT
            !.ownedPets = Spread(defaultState.ownedPets, sub("ownedPets")),
            !.ownedAccessories = Spread(defaultState.ownedAccessories, sub("ownedAccessories")),
            !.equippedAccessories = Spread(defaultState.equippedAccessories, sub("equippedAccessories")),
            !.badges = Spread(defaultState.badges, sub("badges")),
            !.needs = clampNeeds(sub("needs")),
            !.transactions = IF top.transactions = NullArray THEN <<>> ELSE top.transactions,
            !.money = Max(0, NumberOrZero(top.money)),
            !.daysPlayed = Max(0, NumberOrZero(top.daysPlayed)),
            !.animalId = IF top.animalId = NullString THEN defaultState.animalId
                         ELSE top.animalId]

totalAccessoriesOwned(o) ==
    JsAdd(JsAdd(OrZero(o["collar"]), OrZero(o["leash"])), OrZero(o["headband"]))

(* x >= k is false when x is NaN *)
computeBadges(s) ==
    LET acc == totalAccessoriesOwned(s.ownedAccessories)
        d == s.daysPlayed
        ge(x, k) == x # NaN /\ x >= k
    IN  [accessory_1 |-> ge(acc, 1), accessory_2 |-> ge(acc, 2), accessory_4 |-> ge(acc, 4),
         days_5 |-> ge(d, 5), days_10 |-> ge(d, 10), days_15 |-> ge(d, 15),
         days_25 |-> ge(d, 25), days_50 |-> ge(d, 50), days_100 |-> ge(d, 100)]

(* the daysPlayed thresholds of computeBadges *)
BadgeDays == {5, 10, 15, 25, 50, 100}

(* mutant: one of the five needs is left out of the completeness test *)
allNeedsComplete_withoutSleep(needs) ==
    /\ needs["hunger"] >= NEED_MAX
    /\ needs["thirst"] >= NEED_MAX
    /\ needs["health"] >= NEED_MAX
    /\ needs["fun"] >= NEED_MAX

allNeedsComplete(needs) ==
    /\ needs["hunger"] >= NEED_MAX
    /\ needs["thirst"] >= NEED_MAX
    /\ needs["health"] >= NEED_MAX
    /\ needs["fun"] >= NEED_MAX
    /\ needs["sleep"] >= NEED_MAX

(* mutant: the ages read from storage are dropped, only the active pet is written back *)
bumpAge_dropsOthers(ages, pet) ==
    [p \in {pet} |-> (IF pet \in DOMAIN ages THEN ages[pet] ELSE 0) + 1]

(* ages[currentPet] = (ages[currentPet] ?? 0) + 1 *)
bumpAge(ages, pet) ==
    [p \in (DOMAIN ages) \cup {pet} |->
        IF p = pet THEN (IF pet \in DOMAIN ages THEN ages[pet] ELSE 0) + 1 ELSE ages[p]]

(* mutant: the badges of the candidate are kept, computeBadges is not run *)
persistNext_staleBadges(nextRaw) == normalize(nextRaw)

(* the state persist() assigns, stores and hands to the listeners *)
persistNext(nextRaw) ==
    LET normalized == normalize(nextRaw)
    IN  [normalized EXCEPT !.badges = computeBadges(normalized)]

(* What localStorage holds under a key is <<>> when the key is absent and  *)
(* <<text>> otherwise.  A JSON text is written as the value it parses to:   *)
(* an object, Null for the text null, a number, boolean, string or array    *)
(* with its type.  A text that is no JSON, the empty string included, is    *)
(* [raw |-> text].                                                          *)
IsText(v) == "raw" \in DOMAIN v

(* safeParse(localStorage.getItem(STORAGE_KEY)): <<>> for null, <<value>>  *)
(* otherwise.  "" is falsy, a text that is no JSON makes JSON.parse throw,  *)
(* the text null parses to null, any other to its value.                    *)
safeParse(raw) ==
    IF raw = <<>> THEN <<>>
    ELSE IF IsText(raw[1])
         THEN IF raw[1].raw = "" THEN <<>>
              ELSE <<>>
         ELSE IF raw[1] = Null THEN <<>>
         ELSE <<raw[1]>>

(* the boot initializer of `state` *)
bootState(blob) ==
    LET loaded == safeParse(blob)
        base == IF loaded # <<>> /\ Truthy(loaded[1]) THEN normalize(loaded[1])
                ELSE defaultState
    IN  [base EXCEPT !.badges = computeBadges(base)]

(***************************************************************************)
(* Inputs                                                                  *)
(***************************************************************************)
Callbacks == {"ui", "re"}

NeedValues == {-50, 100, 9999}

(* bumpNeed indexes state.needs by its argument and has no per-need code *)
BumpNeeds == {"fun", "sleep"}

BumpDeltas == {-1000, 50}

(* counts with and without a fraction: 1/2 is floored to 0, 3/2 to 1 *)
CountInputs == {-1, 0, Half(0), 1, Half(1)}

MoneyDeltas == {-1000000, -2, 0, 3}

CostInputs == {0, 3, 5}

PurchasePets == {"dragon", "dog"}

MoneyBlobs == {<<>>, <<[defaultState EXCEPT !.money = 6]>>, <<[defaultState EXCEPT !.money = -4]>>}

TxInputs ==
    {[type |-> "income", amount |-> 4, category |-> "Manual", note |-> "n"],
     [type |-> "expense", amount |-> -3, category |-> "Manual", note |-> "n"]}

saturatedNeeds == [n \in NeedIds |-> NEED_MAX]

BootBlobs ==
    {<<>>,
     <<[defaultState EXCEPT !.needs = saturatedNeeds]>>,
     <<[defaultState EXCEPT !.needs = [saturatedNeeds EXCEPT !["sleep"] = 99]]>>}

PetAgesBlobs == {EmptyObj, [p \in {"cat"} |-> 2]}

(* a day that needs only its last need to be complete *)
nearlyDone == [saturatedNeeds EXCEPT !["sleep"] = 99]

(* a badges object that claims every badge *)
bogusBadges == [b \in DOMAIN defaultBadges |-> TRUE]

(* blobs of the day before each badge threshold, with badges that are not   *)
(* the ones computeBadges would give, and a blob without a badges field     *)
BadgeBlobs ==
    {<<>>}
    \cup {<<[defaultState EXCEPT !.daysPlayed = d - 1, !.needs = nearlyDone,
                                 !.badges = bogusBadges]>> : d \in BadgeDays}
    \cup {<<[f \in {"ownedAccessories", "daysPlayed"} |->
               IF f = "daysPlayed" THEN 12
               ELSE [collar |-> 2, leash |-> 0, headband |-> 1]]>>}

(* callbacks that change the listeners array while persist() runs them *)
DeliveryCallbacks == {"ui", "once", "sub"}

PetInputs == {"cat", "fox"}

(* persisted objects: one whose values the store would never write, with   *)
(* keys missing in every nested object; one that is a valid state; one     *)
(* whose nested objects, pet and transactions are all null                 *)
dirtyState ==
    [needs |-> [hunger |-> -20, thirst |-> 250, health |-> 50],
     money |-> -4,
     animalId |-> "fox",
     ownedPets |-> [dragon |-> TRUE],
     ownedAccessories |-> [collar |-> 2],
     equippedAccessories |-> [collar |-> TRUE],
     badges |-> [days_100 |-> TRUE],
     daysPlayed |-> -1,
     transactions |-> <<>>]

validState ==
    [defaultState EXCEPT
        !.needs = [hunger |-> 10, thirst |-> 0, health |-> 100, fun |-> 35, sleep |-> 99],
        !.money = 7,
        !.animalId = "cat",
        !.ownedAccessories = [collar |-> 1, leash |-> 0, headband |-> 0],
        !.badges = [defaultBadges EXCEPT !.accessory_1 = TRUE, !.days_5 = TRUE],
        !.daysPlayed = 6]

nullState ==
    [needs |-> Null,
     money |-> 3,
     animalId |-> NullString,
     ownedPets |-> Null,
     ownedAccessories |-> Null,
     equippedAccessories |-> Null,
     badges |-> Null,
     daysPlayed |-> 5,
     transactions |-> NullArray]

(* the object with the fields F of o: a blob in which the others are missing *)
Restrict(o, F) == [f \in F |-> o[f]]

(* what may be stored under STORAGE_KEY when the module is loaded: nothing, *)
(* the empty string, text that is no JSON, the text null, the JSON of       *)
(* numbers, booleans, strings and arrays, and the JSON of every subset of   *)
(* the fields of the three objects above ({} included)                      *)
RawBlobs ==
    {<<>>, <<[raw |-> ""]>>, <<[raw |-> "{oops"]>>, <<Null>>}
    \cup {<<[number |-> 0]>>, <<[number |-> 5]>>,
          <<[boolean |-> TRUE]>>, <<[boolean |-> FALSE]>>,
          <<[string |-> <<>>]>>, <<[string |-> <<"a", "b", "c">>]>>,
          <<[array |-> <<>>]>>, <<[array |-> <<1, 2>>]>>}
    \cup {<<Restrict(o, F)>> : o \in {dirtyState, validState, nullState},
                               F \in SUBSET (DOMAIN defaultState)}

(* two callbacks that only read, as the pages pass them *)
ReaderCallbacks == {"ui", "tran"}

(***************************************************************************)
(* The call stack.  A frame is one running mutator call:                   *)
(*   op, arg     the call                                                  *)
(*   entry, entryAges, prev   state, pet ages and `last` when it was made  *)
(*   committed   the states its persist() calls have committed so far      *)
(*   i, len      the forEach of the running persist(): next index, and the *)
(*               array length read when the forEach started                *)
(*   cont        what follows the forEach: "advance" or "return"           *)
(*   adv         the call has run advanceDayBecauseNeedsComplete           *)
(*   nested      a listener called a mutator while this call was running   *)
(*   n           the number of the commit the running persist() made       *)
(*   snap        the listeners array as it was when the forEach started    *)
(*   got         the forEach's invocations so far: callback and argument   *)
(* `last` is <<[op, arg]>> when the call that returned last was made by    *)
(* the UI and advanced the day, Loaded when no mutator has been called     *)
(* since the module was loaded, and <<>> otherwise.                        *)
(***************************************************************************)
Loaded == <<[op |-> "load", arg |-> <<0, 0>>]>>

Top == stack[Len(stack)]

(* a mutator may be called by the UI when nothing runs, or by the callback  *)
(* "re" while persist() is invoking it                                      *)
InListener ==
    /\ stack # <<>>
    /\ Len(stack) < MaxDepth
    /\ Top.i <= Top.len
    /\ Top.i <= Len(listeners)
    /\ listeners[Top.i] = "re"

CanCall == stack = <<>> \/ InListener

(* the stack as the callee finds it: the calling forEach has moved on to    *)
(* the next index by the time it resumes, and every running call now        *)
(* contains a nested call                                                   *)
(* the `next` of the persist() that frame f is running *)
nextOf(f) == f.committed[Len(f.committed)]

(* frame f after its forEach has invoked callback cb: l(next) *)
Invoked(f, cb) == [f EXCEPT !.i = @ + 1, !.got = Append(@, [cb |-> cb, st |-> nextOf(f)])]

Caller ==
    [k \in 1..Len(stack) |->
        IF k = Len(stack)
        THEN [Invoked(stack[k], listeners[stack[k].i]) EXCEPT !.nested = TRUE]
        ELSE [stack[k] EXCEPT !.nested = TRUE]]

(* seen, after callback cb was handed commit number n *)
Handed(cb, n) == [c \in (DOMAIN seen) \cup {cb} |-> IF c = cb THEN n ELSE seen[c]]

(* seen, as the callee finds it *)
SeenByCaller == IF stack = <<>> THEN seen ELSE Handed(listeners[Top.i], Top.n)

PendingAdvances == Cardinality({k \in 1..Len(stack) : stack[k].cont = "advance"})

(* mutant: persist() has no try/catch around setItem; the exception leaves  *)
(* the mutator after the assignment to state, before the forEach            *)
Commit_yieldsToOtherWriter(nextRaw, op, arg, cont) ==
    LET nx == persistNext(nextRaw)
    IN  /\ state' = nx
        /\ storage' = IF "game" \in quota \/ storage # <<state>> THEN storage ELSE <<stringify(nx)>>
        /\ stack' = Append(Caller,
                [op |-> op, arg |-> arg, entry |-> state, entryAges |-> petAges,
                 prev |-> last, committed |-> <<nx>>, i |-> 1, len |-> Len(listeners),
                 cont |-> cont, adv |-> FALSE, nested |-> FALSE,
                 n |-> commits + 1, snap |-> listeners, got |-> <<>>])
        /\ last' = <<>>
        /\ commits' = commits + 1
        /\ seen' = SeenByCaller

(* mutant: an exception of setItem leaves persist() before the listeners run *)
Commit_writeErrorEscapes(nextRaw, op, arg, cont) ==
    LET nx == persistNext(nextRaw)
        thrown == "game" \in quota
    IN  /\ state' = nx
        /\ storage' = IF thrown THEN storage ELSE <<stringify(nx)>>
        /\ stack' = Append(Caller,
                [op |-> op, arg |-> arg, entry |-> state, entryAges |-> petAges,
                 prev |-> last, committed |-> <<nx>>, i |-> 1,
                 len |-> IF thrown THEN 0 ELSE Len(listeners),
                 cont |-> IF thrown THEN "return" ELSE cont,
                 adv |-> FALSE, nested |-> FALSE,
                 n |-> commits + 1, snap |-> listeners, got |-> <<>>])
        /\ last' = <<>>
        /\ commits' = commits + 1
        /\ seen' = SeenByCaller

(* persist(nextRaw) up to the forEach, as the first or only commit of op *)
Commit(nextRaw, op, arg, cont) ==
    LET nx == persistNext(nextRaw)
    IN  /\ state' = nx
        /\ storage' = IF "game" \in quota THEN storage ELSE <<stringify(nx)>>
        /\ stack' = Append(Caller,
                [op |-> op, arg |-> arg, entry |-> state, entryAges |-> petAges,
                 prev |-> last, committed |-> <<nx>>, i |-> 1, len |-> Len(listeners),
                 cont |-> cont, adv |-> FALSE, nested |-> FALSE,
                 n |-> commits + 1, snap |-> listeners, got |-> <<>>])
        /\ last' = <<>>
        /\ commits' = commits + 1
        /\ seen' = SeenByCaller

(* a call that returns before reaching persist(): nothing is assigned,      *)
(* nothing is stored and no forEach runs                                    *)
NoCommit(op, arg) ==
    /\ stack' = Append(Caller,
            [op |-> op, arg |-> arg, entry |-> state, entryAges |-> petAges,
             prev |-> last, committed |-> <<>>, i |-> 1, len |-> 0,
             cont |-> "return", adv |-> FALSE, nested |-> FALSE,
             n |-> 0, snap |-> <<>>, got |-> <<>>])
    /\ last' = <<>>
    /\ seen' = SeenByCaller
    /\ UNCHANGED <<state, storage, commits>>

newTx(tx) == [id |-> txCreated + 1, type |-> tx.type, amount |-> tx.amount,
              category |-> tx.category, note |-> tx.note]

(***************************************************************************)
(* Construction                                                            *)
(***************************************************************************)
(* nothing has been subscribed or committed yet, storage takes writes and  *)
(* no other instance is open                                               *)
(* no page is mounted: the component state a page starts with *)
NoPage ==
    [mounted |-> "none",
     now |-> 0,
     action |-> <<>>,
     todo |-> <<>>,
     cycleStartMs |-> 0,
     needs |-> [hunger |-> 70, fun |-> 70, health |-> 75, bathroom |-> 70],
     petAges |-> EmptyObj,
     finished |-> <<>>]

Quiet ==
    /\ closures = <<>>
    /\ commits = 0
    /\ seen = EmptyObj
    /\ quota = {}
    /\ peer = <<>>
    /\ page = NoPage

Init ==
    /\ storage \in BootBlobs
    /\ petAges \in PetAgesBlobs
    /\ state = bootState(storage)
    /\ listeners = <<>>
    /\ stack = <<>>
    /\ txCreated = 0
    /\ last = Loaded
    /\ Quiet

(* a store booted without a blob or from the blob of a nearly completed day *)
InitSession ==
    /\ storage \in {<<>>, <<[defaultState EXCEPT !.needs = [saturatedNeeds EXCEPT !["sleep"] = 99]]>>}
    /\ petAges = EmptyObj
    /\ state = bootState(storage)
    /\ listeners = <<>>
    /\ stack = <<>>
    /\ txCreated = 0
    /\ last = Loaded
    /\ Quiet

(* a store booted without a blob: the default state *)
InitDefault ==
    /\ storage = <<>>
    /\ petAges = EmptyObj
    /\ state = bootState(storage)
    /\ listeners = <<>>
    /\ stack = <<>>
    /\ txCreated = 0
    /\ last = Loaded
    /\ Quiet

(* a store booted without a blob or from a blob with a balance *)
InitMoney ==
    /\ storage \in MoneyBlobs
    /\ petAges = EmptyObj
    /\ state = bootState(storage)
    /\ listeners = <<>>
    /\ stack = <<>>
    /\ txCreated = 0
    /\ last = Loaded
    /\ Quiet

(***************************************************************************)
(* Subscription (gameStore.ts:274-280)                                     *)
(***************************************************************************)
(* the function subscribeGameState(cb) returns, as its caller holds it *)
closureOf(cb) == [cb |-> cb, called |-> FALSE]

subscribeGameState(cb) ==
    /\ stack = <<>>
    /\ listeners' = Append(listeners, cb)
    /\ closures' = Append(closures, closureOf(cb))
    /\ UNCHANGED <<state, storage, petAges, stack, txCreated, last, commits, seen, env>>

indexOf(seq, x) ==
    IF \E k \in 1..Len(seq) : seq[k] = x
    THEN CHOOSE k \in 1..Len(seq) : seq[k] = x /\ \A j \in 1..(k - 1) : seq[j] # x
    ELSE 0

splice1(seq, k) == SubSeq(seq, 1, k - 1) \o SubSeq(seq, k + 1, Len(seq))

(* the body of the function returned by subscribeGameState(cb) *)
removeListener(cb) ==
    IF indexOf(listeners, cb) >= 1
    THEN splice1(listeners, indexOf(listeners, cb))
    ELSE listeners

(* a component's cleanup: it calls the function it got from                *)
(* subscribeGameState(cb) once and drops it                                *)
unsubscribe(cb) ==
    /\ stack = <<>>
    /\ indexOf(closures, closureOf(cb)) >= 1
    /\ listeners' = removeListener(cb)
    /\ closures' = splice1(closures, indexOf(closures, closureOf(cb)))
    /\ UNCHANGED <<state, storage, petAges, stack, txCreated, last, commits, seen, env>>

(* a caller that keeps the k-th function returned so far calls it, for the *)
(* first time or again                                                     *)
callUnsubscribe(k) ==
    /\ stack = <<>>
    /\ k \in 1..Len(closures)
    /\ listeners' = removeListener(closures[k].cb)
    /\ closures' = [closures EXCEPT ![k].called = TRUE]
    /\ UNCHANGED <<state, storage, petAges, stack, txCreated, last, commits, seen, env>>

(***************************************************************************)
(* Mutators (gameStore.ts:285-411)                                         *)
(***************************************************************************)
(* mutant: a pet that is not owned is not selected *)
setSelectedPet_checksOwnership(animalId) ==
    /\ CanCall
    /\ IF ~state.ownedPets[animalId]
       THEN NoCommit("setSelectedPet", <<animalId, 0>>)
       ELSE Commit([state EXCEPT !.animalId = animalId], "setSelectedPet", <<animalId, 0>>, "return")
    /\ UNCHANGED <<petAges, listeners, txCreated, closures, env>>

setSelectedPet(animalId) ==
    /\ CanCall
    /\ Commit([state EXCEPT !.animalId = animalId], "setSelectedPet", <<animalId, 0>>, "return")
    /\ UNCHANGED <<petAges, listeners, txCreated, closures, env>>

(* mutant: equipping does not look at the owned count *)
setEquippedAccessory_unchecked(accessory, equipped) ==
    /\ CanCall
    /\ Commit([state EXCEPT !.equippedAccessories[accessory] = equipped],
              "setEquippedAccessory", <<accessory, equipped>>, "return")
    /\ UNCHANGED <<petAges, listeners, txCreated, closures, env>>

setEquippedAccessory(accessory, equipped) ==
    /\ CanCall
    /\ IF equipped /\ OrZero(state.ownedAccessories[accessory]) <= 0
       THEN NoCommit("setEquippedAccessory", <<accessory, equipped>>)
       ELSE Commit([state EXCEPT !.equippedAccessories[accessory] = equipped],
                   "setEquippedAccessory", <<accessory, equipped>>, "return")
    /\ UNCHANGED <<petAges, listeners, txCreated, closures, env>>

addTransaction(tx) ==
    /\ CanCall
    /\ LET nextTx == newTx([tx EXCEPT !.amount = JsMax(0, tx.amount)])
       IN  Commit([state EXCEPT !.transactions = PrependSlice(nextTx, state.transactions, TX_CAP)],
                  "addTransaction", <<tx.type, tx.amount>>, "return")
    /\ txCreated' = txCreated + 1
    /\ UNCHANGED <<petAges, listeners, closures, env>>

(* mutant: Math.abs is lost, the logged amount keeps the sign of delta *)
txOfDelta_signedAmount(delta) ==
    LET type == IF delta # NaN /\ delta >= 0 THEN "income" ELSE "expense"
    IN  [type |-> type, amount |-> delta,
         category |-> IF type = "income" THEN "Game Earned" ELSE "Game Spent",
         note |-> IF type = "income" THEN "Earned on Map" ELSE "Spent on Map"]

(* the type, amount, category and note applyMoneyDelta logs (no meta given) *)
txOfDelta(delta) ==
    LET type == IF delta # NaN /\ delta >= 0 THEN "income" ELSE "expense"
        amount == Abs(delta)
    IN  [type |-> type, amount |-> amount,
         category |-> IF type = "income" THEN "Game Earned" ELSE "Game Spent",
         note |-> IF type = "income" THEN "Earned on Map" ELSE "Spent on Map"]

applyMoneyDelta_keepsMoney(delta) ==
    /\ CanCall
    /\ LET nextTx == newTx(txOfDelta(delta))
       IN  Commit([state EXCEPT !.transactions = PrependSlice(nextTx, state.transactions, TX_CAP)],
                  "applyMoneyDelta", <<delta, 0>>, "return")
    /\ txCreated' = txCreated + 1
    /\ UNCHANGED <<petAges, listeners, closures, env>>

applyMoneyDelta(delta) ==
    /\ CanCall
    /\ LET nextTx == newTx(txOfDelta(delta))
       IN  Commit([state EXCEPT !.money = JsMax(0, JsAdd(state.money, delta)),
                                !.transactions = PrependSlice(nextTx, state.transactions, TX_CAP)],
                  "applyMoneyDelta", <<delta, 0>>, "return")
    /\ txCreated' = txCreated + 1
    /\ UNCHANGED <<petAges, listeners, closures, env>>

(* the model follows a store for MaxDays day advances from day 0, and over  *)
(* the step onto each badge threshold                                       *)
DayBound ==
    LET d == state.daysPlayed + PendingAdvances
    IN  d < MaxDays \/ d + 1 \in BadgeDays

(* mutant: the trigger looks at the level (nextComplete) and not at the edge *)
setNeedFrom_neverAdvances(need, value, op, arg) ==
    LET nextNeeds == clampNeeds([state.needs EXCEPT ![need] = value])
    IN  Commit([state EXCEPT !.needs = nextNeeds], op, arg, "return")

setNeedFrom_levelTriggered(need, value, op, arg) ==
    LET nextNeeds == clampNeeds([state.needs EXCEPT ![need] = value])
        nextComplete == allNeedsComplete(nextNeeds)
    IN  /\ nextComplete => DayBound
        /\ Commit([state EXCEPT !.needs = nextNeeds], op, arg,
                  IF nextComplete THEN "advance" ELSE "return")

(* setNeed's body; bumpNeed runs it too, op and arg name the call for the frame *)
setNeedFrom(need, value, op, arg) ==
    LET prevComplete == allNeedsComplete(state.needs)
        nextNeeds == clampNeeds([state.needs EXCEPT ![need] = value])
        nextComplete == allNeedsComplete(nextNeeds)
    IN  /\ (~prevComplete /\ nextComplete) => DayBound
        /\ Commit([state EXCEPT !.needs = nextNeeds], op, arg,
                  IF ~prevComplete /\ nextComplete THEN "advance" ELSE "return")

setNeed(need, value) ==
    /\ CanCall
    /\ setNeedFrom(need, value, "setNeed", <<need, value>>)
    /\ UNCHANGED <<petAges, listeners, txCreated, closures, env>>

(* mutant: the delta is added to 0, not to the current value *)
bumpNeed_fromZero(need, delta) ==
    /\ CanCall
    /\ LET current == 0
       IN  setNeedFrom(need, JsAdd(current, delta), "bumpNeed", <<need, delta>>)
    /\ UNCHANGED <<petAges, listeners, txCreated, closures, env>>

bumpNeed(need, delta) ==
    /\ CanCall
    /\ LET current == state.needs[need]
       IN  setNeedFrom(need, JsAdd(current, delta), "bumpNeed", <<need, delta>>)
    /\ UNCHANGED <<petAges, listeners, txCreated, closures, env>>

(* mutant: the retired time-based increment is still in place *)
incrementDaysPlayed_stillCounts(by) ==
    /\ CanCall
    /\ Commit([state EXCEPT !.daysPlayed = state.daysPlayed + by],
              "incrementDaysPlayed", <<by, 0>>, "return")
    /\ UNCHANGED <<petAges, listeners, txCreated, closures, env>>

incrementDaysPlayed(by) ==
    /\ CanCall
    /\ NoCommit("incrementDaysPlayed", <<by, 0>>)
    /\ UNCHANGED <<petAges, listeners, txCreated, closures, env>>

(* mutant: the count replaces the owned count instead of being added to it *)
addOwnedAccessory_addsOne(accessory, count) ==
    /\ CanCall
    /\ LET add == Max(0, Floor(NumberOrZero(count)))
       IN  IF add <= 0
           THEN NoCommit("addOwnedAccessory", <<accessory, count>>)
           ELSE Commit([state EXCEPT !.ownedAccessories[accessory] =
                                        JsMax(0, JsAdd(OrZero(state.ownedAccessories[accessory]), 1))],
                       "addOwnedAccessory", <<accessory, count>>, "return")
    /\ UNCHANGED <<petAges, listeners, txCreated, closures, env>>

(* mutant: the count replaces what is owned *)
addOwnedAccessory_overwrites(accessory, count) ==
    /\ CanCall
    /\ LET add == Max(0, Floor(NumberOrZero(count)))
       IN  IF add <= 0
           THEN NoCommit("addOwnedAccessory", <<accessory, count>>)
           ELSE Commit([state EXCEPT !.ownedAccessories[accessory] = Max(0, add)],
                       "addOwnedAccessory", <<accessory, count>>, "return")
    /\ UNCHANGED <<petAges, listeners, txCreated, closures, env>>

(* mutant: the early return on a count <= 0 is lost *)
addOwnedAccessory_alwaysCommits(accessory, count) ==
    /\ CanCall
    /\ LET add == Max(0, Floor(NumberOrZero(count)))
       IN  Commit([state EXCEPT !.ownedAccessories[accessory] =
                                    JsMax(0, JsAdd(OrZero(state.ownedAccessories[accessory]), add))],
                  "addOwnedAccessory", <<accessory, count>>, "return")
    /\ UNCHANGED <<petAges, listeners, txCreated, closures, env>>

addOwnedAccessory(accessory, count) ==
    /\ CanCall
    /\ LET add == Max(0, Floor(NumberOrZero(count)))
       IN  IF add <= 0
           THEN NoCommit("addOwnedAccessory", <<accessory, count>>)
           ELSE Commit([state EXCEPT !.ownedAccessories[accessory] =
                                        JsMax(0, JsAdd(OrZero(state.ownedAccessories[accessory]), add))],
                       "addOwnedAccessory", <<accessory, count>>, "return")
    /\ UNCHANGED <<petAges, listeners, txCreated, closures, env>>

(* mutant: the balance is not compared with the price *)
purchasePremiumPet_noFundsCheck(petId, cost) ==
    /\ CanCall
    /\ LET price == JsMax(0, cost)
           nextTx == newTx([type |-> "expense", amount |-> price,
                            category |-> "Pet Purchase",
                            note |-> "Purchased " \o petId])
       IN  IF state.ownedPets[petId]
           THEN /\ NoCommit("purchasePremiumPet", <<petId, cost>>)
                /\ UNCHANGED txCreated
           ELSE /\ Commit([state EXCEPT !.money = JsMax(0, IF price = NaN THEN NaN
                                                           ELSE JsAdd(state.money, -price)),
                                        !.ownedPets[petId] = TRUE,
                                        !.transactions = PrependSlice(nextTx, state.transactions, TX_CAP)],
                          "purchasePremiumPet", <<petId, cost>>, "return")
                /\ txCreated' = txCreated + 1
    /\ UNCHANGED <<petAges, listeners, closures, env>>

purchasePremiumPet(petId, cost) ==
    /\ CanCall
    /\ LET price == JsMax(0, cost)
           nextTx == newTx([type |-> "expense", amount |-> price,
                            category |-> "Pet Purchase",
                            note |-> "Purchased " \o petId])
       IN  IF state.ownedPets[petId] \/ (price # NaN /\ state.money < price)
           THEN /\ NoCommit("purchasePremiumPet", <<petId, cost>>)
                /\ UNCHANGED txCreated
           ELSE /\ Commit([state EXCEPT !.money = JsMax(0, IF price = NaN THEN NaN
                                                           ELSE JsAdd(state.money, -price)),
                                        !.ownedPets[petId] = TRUE,
                                        !.transactions = PrependSlice(nextTx, state.transactions, TX_CAP)],
                          "purchasePremiumPet", <<petId, cost>>, "return")
                /\ txCreated' = txCreated + 1
    /\ UNCHANGED <<petAges, listeners, closures, env>>

(***************************************************************************)
(* persist()'s forEach and what follows it                                 *)
(***************************************************************************)
(* The callbacks of the model.  The pages' callbacks only copy fields of   *)
(* the state they are handed into component state ("ui", "tran"); the      *)
(* others are what a caller of the API may pass:                           *)
(*   "re"    may call a mutator (see InListener)                           *)
(*   "once"  calls the function its own subscribeGameState call returned   *)
(*   "sub"   subscribes "ui" unless "ui" is subscribed already             *)
lastIndexOf(seq, cb) ==
    IF \E k \in 1..Len(seq) : seq[k].cb = cb
    THEN CHOOSE k \in 1..Len(seq) : seq[k].cb = cb /\ \A j \in (k + 1)..Len(seq) : seq[j].cb # cb
    ELSE 0

(* listeners.forEach((l) => l(next)): one index of the loop, and what the   *)
(* callback found there does without calling a mutator.  forEach read the   *)
(* length when it started and skips an index that is no longer in the array *)
notify ==
    /\ stack # <<>>
    /\ Top.i <= Top.len
    /\ IF Top.i > Len(listeners)
       THEN /\ stack' = [stack EXCEPT ![Len(stack)].i = @ + 1]
            /\ UNCHANGED <<listeners, closures, seen>>
       ELSE LET cb == listeners[Top.i]
                own == lastIndexOf(closures, cb)
            IN  /\ stack' = [stack EXCEPT ![Len(stack)] = Invoked(@, cb)]
                /\ seen' = Handed(cb, Top.n)
                /\ IF cb = "once"
                   THEN /\ listeners' = removeListener(cb)
                        /\ closures' = IF own >= 1
                                         THEN [closures EXCEPT ![own].called = TRUE]
                                         ELSE closures
                   ELSE IF cb = "sub" /\ indexOf(listeners, "ui") = 0
                   THEN /\ listeners' = Append(listeners, "ui")
                        /\ closures' = Append(closures, closureOf("ui"))
                   ELSE UNCHANGED <<listeners, closures>>
    /\ UNCHANGED <<state, storage, petAges, txCreated, last, commits, env>>

(* mutant: the day is advanced but the needs are not reset in that commit *)
advanceDayBecauseNeedsComplete_keepsNeeds ==
    /\ stack # <<>>
    /\ Top.i > Top.len
    /\ Top.cont = "advance"
    /\ LET nx == persistNext([state EXCEPT !.daysPlayed = JsAdd(state.daysPlayed, 1)])
       IN  /\ petAges' = IF "ages" \in quota THEN petAges ELSE bumpAge(petAges, state.animalId)
           /\ state' = nx
           /\ storage' = IF "game" \in quota THEN storage ELSE <<stringify(nx)>>
           /\ stack' = [stack EXCEPT ![Len(stack)] =
                            [@ EXCEPT !.committed = Append(@, nx), !.i = 1,
                                      !.len = Len(listeners), !.cont = "return",
                                      !.adv = TRUE, !.n = commits + 1,
                                      !.snap = listeners, !.got = <<>>]]
           /\ commits' = commits + 1
    /\ UNCHANGED <<listeners, txCreated, last, closures, seen, env>>

(* setNeed after its persist() returned with !prevComplete && nextComplete *)
advanceDayBecauseNeedsComplete ==
    /\ stack # <<>>
    /\ Top.i > Top.len
    /\ Top.cont = "advance"
    /\ LET ages == petAges
           currentPet == state.animalId
           nx == persistNext([state EXCEPT !.daysPlayed = JsAdd(state.daysPlayed, 1),
                                           !.needs = defaultNeeds])
       IN  /\ petAges' = IF "ages" \in quota THEN petAges ELSE bumpAge(ages, currentPet)
           /\ state' = nx
           /\ storage' = IF "game" \in quota THEN storage ELSE <<stringify(nx)>>
           /\ stack' = [stack EXCEPT ![Len(stack)] =
                            [@ EXCEPT !.committed = Append(@, nx), !.i = 1,
                                      !.len = Len(listeners), !.cont = "return",
                                      !.adv = TRUE, !.n = commits + 1,
                                      !.snap = listeners, !.got = <<>>]]
           /\ commits' = commits + 1
    /\ UNCHANGED <<listeners, txCreated, last, closures, seen, env>>

(* the mutator returns to its caller *)
return ==
    /\ stack # <<>>
    /\ Top.i > Top.len
    /\ Top.cont = "return"
    /\ stack' = SubSeq(stack, 1, Len(stack) - 1)
    /\ last' = IF Len(stack) = 1 /\ Top.adv /\ ~Top.nested
               THEN <<[op |-> Top.op, arg |-> Top.arg]>>
               ELSE <<>>
    /\ commits' = IF Len(stack) = 1 THEN 0 ELSE commits
    /\ seen' = IF Len(stack) = 1 THEN EmptyObj ELSE seen
    /\ UNCHANGED <<state, storage, petAges, listeners, txCreated, closures, env>>

(***************************************************************************)
(* Specifications                                                          *)
(***************************************************************************)
(* the needs and the day-advance trigger, with listeners *)
NextNeeds ==
    \/ /\ Len(listeners) < MaxListeners
       /\ subscribeGameState("ui")
    \/ unsubscribe("ui")
    \/ setSelectedPet("cat")
    \/ \E n \in NeedIds, v \in NeedValues : setNeed(n, v)
    \/ \E n \in BumpNeeds, d \in BumpDeltas : bumpNeed(n, d)
    \/ notify
    \/ advanceDayBecauseNeedsComplete
    \/ return

SpecNeeds == Init /\ [][NextNeeds]_vars

(* the store boots with needs that are not complete *)
InitIncomplete ==
    /\ Init
    /\ ~allNeedsComplete(state.needs)

SpecTransient == InitIncomplete /\ [][NextNeeds]_vars

(* the needs with a callback that calls setNeed from inside persist()'s forEach *)
NextReentrant ==
    \/ \E cb \in Callbacks :
          /\ Len(listeners) < MaxListeners
          /\ subscribeGameState(cb)
    \/ \E n \in BumpNeeds, v \in NeedValues : setNeed(n, v)
    \/ notify
    \/ advanceDayBecauseNeedsComplete
    \/ return

SpecReentrant == Init /\ [][NextReentrant]_vars

(* every operation of the public API; MaxTx bounds the transactions that   *)
(* are logged apart from the one of a purchase that goes through            *)
Next ==
    \/ /\ Len(listeners) < MaxListeners
       /\ subscribeGameState("ui")
    \/ unsubscribe("ui")
    \/ setSelectedPet("cat")
    \/ \E a \in AccessoryIds, e \in BOOLEAN : setEquippedAccessory(a, e)
    \/ /\ txCreated < MaxTx
       /\ addTransaction([type |-> "expense", amount |-> -3, category |-> "Manual", note |-> "n"])
    \/ /\ txCreated < MaxTx
       /\ state.money + 3 <= MaxMoney
       /\ applyMoneyDelta(3)
    \/ setNeed("sleep", 100)
    \/ bumpNeed("sleep", -1000)
    \/ \E by \in {-5, 1} : incrementDaysPlayed(by)
    \/ \E a \in AccessoryIds, c \in CountInputs :
          /\ state.ownedAccessories[a] + Floor(c) <= MaxOwned
          /\ addOwnedAccessory(a, c)
    \/ \E p \in PurchasePets :
          /\ (~state.ownedPets[p] /\ state.money >= 3) => txCreated <= MaxTx
          /\ purchasePremiumPet(p, 3)
    \/ notify
    \/ advanceDayBecauseNeedsComplete
    \/ return

Spec == InitSession /\ [][Next]_vars

(* the page is loaded with whatever the storage holds *)
InitBoot ==
    /\ storage \in RawBlobs
    /\ petAges = EmptyObj
    /\ state = bootState(storage)
    /\ listeners = <<>>
    /\ stack = <<>>
    /\ txCreated = 0
    /\ last = Loaded
    /\ Quiet

(* the page is reloaded: the module is evaluated again, on the same storage *)
reload ==
    /\ stack = <<>>
    /\ state' = bootState(storage)
    /\ listeners' = <<>>
    /\ closures' = <<>>
    /\ last' = Loaded
    /\ UNCHANGED <<storage, petAges, stack, txCreated, commits, seen, env>>

NextBoot ==
    \/ /\ Len(listeners) < MaxListeners
       /\ subscribeGameState("ui")
    \/ setSelectedPet("cat")
    \/ notify
    \/ return
    \/ reload

SpecBoot == InitBoot /\ [][NextBoot]_vars

(***************************************************************************)
(* Two tabs: two instances of the module on one localStorage.  The         *)
(* variables state, listeners, closures, stack, last, commits, seen and    *)
(* page are those of the instance that takes the next step; peer holds the *)
(* other instance's.                                                       *)
(***************************************************************************)
Instance(s, ls, cl, st, l, c, sn, pg) ==
    [state |-> s, listeners |-> ls, closures |-> cl, stack |-> st, last |-> l,
     commits |-> c, seen |-> sn, page |-> pg]

TabBlobs == {<<>>, <<[defaultState EXCEPT !.needs = nearlyDone]>>}

(* both tabs have loaded the module from the same storage *)
InitTabs ==
    /\ storage \in TabBlobs
    /\ petAges = EmptyObj
    /\ state = bootState(storage)
    /\ listeners = <<>>
    /\ stack = <<>>
    /\ txCreated = 0
    /\ last = Loaded
    /\ closures = <<>>
    /\ commits = 0
    /\ seen = EmptyObj
    /\ quota = {}
    /\ peer = <<Instance(bootState(storage), <<>>, <<>>, <<>>, Loaded, 0, EmptyObj, NoPage)>>
    /\ page = NoPage

(* the other tab takes the next step, from wherever it stood; what it has   *)
(* in memory is what it had, the storage is what it is now                  *)
switchTab ==
    /\ peer # <<>>
    /\ state' = peer[1].state
    /\ listeners' = peer[1].listeners
    /\ closures' = peer[1].closures
    /\ stack' = peer[1].stack
    /\ last' = peer[1].last
    /\ commits' = peer[1].commits
    /\ seen' = peer[1].seen
    /\ page' = peer[1].page
    /\ peer' = <<Instance(state, listeners, closures, stack, last, commits, seen, page)>>
    /\ UNCHANGED <<storage, petAges, txCreated, quota>>

NextTabs ==
    \/ switchTab
    \/ /\ Len(listeners) < MaxListeners
       /\ subscribeGameState("ui")
    \/ notify
    \/ setSelectedPet("cat")
    \/ /\ txCreated < MaxTx
       /\ state.money + 3 <= MaxMoney
       /\ applyMoneyDelta(3)
    \/ /\ state.ownedAccessories["collar"] + 1 <= MaxOwned
       /\ addOwnedAccessory("collar", 1)
    \/ setNeed("sleep", 100)
    \/ advanceDayBecauseNeedsComplete
    \/ return

SpecTabs == InitTabs /\ [][NextTabs]_vars

(* accessories: every count, with and without a fraction, among calls of   *)
(* the rest of the API                                                      *)
AccessoryCounts == {-1, 0, Half(0), 1, Half(1), 2}

(* a store booted without a blob, from the blob of a nearly completed day,  *)
(* or from a blob that holds a negative count, which normalize keeps        *)
InitAccessories ==
    /\ storage \in {<<>>,
                    <<[defaultState EXCEPT !.needs = [saturatedNeeds EXCEPT !["sleep"] = 99]]>>,
                    <<[defaultState EXCEPT !.ownedAccessories["collar"] = -2]>>}
    /\ petAges = EmptyObj
    /\ state = bootState(storage)
    /\ listeners = <<>>
    /\ stack = <<>>
    /\ txCreated = 0
    /\ last = Loaded
    /\ Quiet

NextAccessories ==
    \/ /\ Len(listeners) < MaxListeners
       /\ subscribeGameState("ui")
    \/ \E a \in AccessoryIds, c \in AccessoryCounts :
          /\ totalAccessoriesOwned(state.ownedAccessories) + Floor(c) <= MaxTotal
          /\ addOwnedAccessory(a, c)
    \/ \E a \in AccessoryIds, e \in BOOLEAN : setEquippedAccessory(a, e)
    \/ setSelectedPet("cat")
    \/ /\ txCreated < MaxTx
       /\ purchasePremiumPet("dragon", 0)
    \/ setNeed("sleep", 100)
    \/ notify
    \/ advanceDayBecauseNeedsComplete
    \/ return

SpecAccessories == InitAccessories /\ [][NextAccessories]_vars

(* pet selection: every identifier, owned or not, before and after the    *)
(* purchase of the dragon                                                  *)
NextPets ==
    \/ /\ Len(listeners) < MaxListeners
       /\ subscribeGameState("ui")
    \/ \E p \in AnimalIds : setSelectedPet(p)
    \/ /\ txCreated < MaxTx
       /\ purchasePremiumPet("dragon", 0)
    \/ setNeed("sleep", 100)
    \/ notify
    \/ advanceDayBecauseNeedsComplete
    \/ return

SpecPets == Init /\ [][NextPets]_vars

(***************************************************************************)
(* The map page (Articles.tsx).  page.now is Date.now(); page.action is    *)
(* the component's `action` state, with the run() closure of the button    *)
(* that started it and the money that closure has captured; page.todo are  *)
(* the store calls of a running run(), made one after the other, each with *)
(* its notifications, before anything else happens.                        *)
(***************************************************************************)
StoreCall(op, id, n, meta) == [op |-> op, id |-> id, n |-> n, meta |-> meta]

Bump(need, delta) == StoreCall("bumpNeed", need, delta, EmptyObj)

Pay(delta, category, note) ==
    StoreCall("applyMoneyDelta", "", delta, [category |-> category, note |-> note])

Own(accessory) == StoreCall("addOwnedAccessory", accessory, 1, EmptyObj)

(* clamp of the map page *)
clamp(v) == Max(0, Min(100, v))

(* the cycle of the map page lasts 30 minutes *)
CYCLE_MS == 1800000

(* what a cycle takes from the needs the page holds *)
cycleDecay == [hunger |-> 18, fun |-> 16, health |-> 14, bathroom |-> 12]

(* the buttons of the five places: duration, the money run() asks for      *)
(* before it does anything, the need of the page run() raises, and the     *)
(* store calls run() makes                                                 *)
actionButtons ==
    { [label |-> "Eat meal", durationMs |-> 8000, cost |-> 0,
       raise |-> <<"hunger", 38>>,
       calls |-> <<Bump("hunger", 38), Pay(25, "Restaurant", "Meal completed")>>],
      [label |-> "Treat snack", durationMs |-> 3200, cost |-> 0,
       raise |-> <<"hunger", 22>>,
       calls |-> <<Pay(12, "Restaurant", "Snack completed")>>],
      [label |-> "Doctor checkup", durationMs |-> 9000, cost |-> 0,
       raise |-> <<"health", 40>>,
       calls |-> <<Bump("health", 40), Pay(30, "Hospital", "Doctor checkup")>>],
      [label |-> "Quick wellness scan", durationMs |-> 3800, cost |-> 0,
       raise |-> <<"health", 22>>,
       calls |-> <<Pay(15, "Hospital", "Wellness scan")>>],
      [label |-> "Full bathroom break", durationMs |-> 6000, cost |-> 0,
       raise |-> <<"bathroom", 45>>,
       calls |-> <<Bump("sleep", 45), Pay(10, "Bathroom", "Full bathroom break")>>],
      [label |-> "Quick bathroom break", durationMs |-> 2400, cost |-> 0,
       raise |-> <<"bathroom", 25>>,
       calls |-> <<Pay(5, "Bathroom", "Quick bathroom break")>>],
      [label |-> "Buy toy", durationMs |-> 5200, cost |-> 20,
       raise |-> <<"fun", 42>>,
       calls |-> <<Pay(-20, "Toy Store", "Toy purchased"), Bump("fun", 42)>>],
      [label |-> "Buy small toy", durationMs |-> 2500, cost |-> 10,
       raise |-> <<"fun", 24>>,
       calls |-> <<Pay(-10, "Toy Store", "Small toy purchased")>>],
      [label |-> "Buy collar", durationMs |-> 3000, cost |-> 12,
       raise |-> <<>>,
       calls |-> <<Pay(-12, "Salon", "Bought collar"), Own("collar")>>],
      [label |-> "Buy leash", durationMs |-> 2800, cost |-> 10,
       raise |-> <<>>,
       calls |-> <<Pay(-10, "Salon", "Bought leash"), Own("leash")>>],
      [label |-> "Buy headband", durationMs |-> 2800, cost |-> 15,
       raise |-> <<>>,
       calls |-> <<Pay(-15, "Salon", "Bought headband"), Own("headband")>>],
      [label |-> "Grooming", durationMs |-> 6500, cost |-> 18,
       raise |-> <<>>,
       calls |-> <<Pay(-18, "Salon", "Grooming")>> ] }

(* nothing of the page or the store is running *)
Idle == stack = <<>> /\ page.todo = <<>>

(* localStorage.setItem(PET_AGES_KEY, JSON.stringify(next)) inside a try:  *)
(* what the key holds afterwards                                            *)
savePetAges(next) == IF "ages" \in quota THEN petAges ELSE next

(* the map page is mounted: it reads the pet ages into its own state, its   *)
(* effects subscribe to the store, save the pet ages it holds and start     *)
(* the cycle                                                                *)
mountMap ==
    /\ Idle
    /\ page.mounted = "none"
    /\ listeners' = Append(listeners, "ui")
    /\ closures' = Append(closures, closureOf("ui"))
    /\ petAges' = savePetAges(petAges)
    /\ page' = [NoPage EXCEPT !.mounted = "map", !.now = page.now,
                              !.cycleStartMs = page.now, !.petAges = petAges]
    /\ UNCHANGED <<state, storage, stack, txCreated, last, commits, seen, quota, peer>>

(* a button is clicked *)
startAction(b) ==
    /\ Idle
    /\ page.mounted = "map"
    /\ page.action = <<>>
    /\ page' = [page EXCEPT !.action =
                    <<[label |-> b.label, startedAt |-> page.now, durationMs |-> b.durationMs,
                       onFinish |-> [cost |-> b.cost, calls |-> b.calls, raise |-> b.raise,
                                     money |-> state.money]]>>]
    /\ UNCHANGED <<state, storage, petAges, listeners, stack, txCreated, last,
                   closures, commits, seen, quota, peer>>

(* time passes *)
elapse(d) ==
    /\ Idle
    /\ page' = [page EXCEPT !.now = @ + d]
    /\ UNCHANGED <<state, storage, petAges, listeners, stack, txCreated, last,
                   closures, commits, seen, quota, peer>>

(* page.finished is history: the actions whose onFinish has been called    *)
(* since the page was mounted, with the time of the call                    *)
actionTick_firesEarly ==
    /\ Idle
    /\ page.mounted = "map"
    /\ page.action # <<>>
    /\ LET a == page.action[1]
           finish == a.onFinish
       IN  /\ page' = [page EXCEPT !.action = <<>>,
                                   !.todo = IF finish.money < finish.cost
                                            THEN <<>> ELSE finish.calls,
                                   !.needs = IF finish.money < finish.cost \/ finish.raise = <<>>
                                             THEN @
                                             ELSE [@ EXCEPT ![finish.raise[1]] =
                                                                clamp(@ + finish.raise[2])],
                                   !.finished = Append(@, [label |-> a.label,
                                                           startedAt |-> a.startedAt,
                                                           at |-> page.now])]
    /\ UNCHANGED <<state, storage, petAges, listeners, stack, txCreated, last,
                   closures, commits, seen, quota, peer>>

(* the interval of the action effect fires when the action is due: the      *)
(* action is cleared and its onFinish runs                                  *)
actionTick ==
    /\ Idle
    /\ page.mounted = "map"
    /\ page.action # <<>>
    /\ LET a == page.action[1]
           finish == a.onFinish
       IN  /\ page.now - a.startedAt >= a.durationMs
           /\ page' = [page EXCEPT !.action = <<>>,
                                   !.todo = IF finish.money < finish.cost
                                            THEN <<>> ELSE finish.calls,
                                   !.needs = IF finish.money < finish.cost \/ finish.raise = <<>>
                                             THEN @
                                             ELSE [@ EXCEPT ![finish.raise[1]] =
                                                                clamp(@ + finish.raise[2])],
                                   !.finished = Append(@, [label |-> a.label,
                                                           startedAt |-> a.startedAt,
                                                           at |-> page.now])]
    /\ UNCHANGED <<state, storage, petAges, listeners, stack, txCreated, last,
                   closures, commits, seen, quota, peer>>

(* the pets the home page sells *)
premium == {"unicorn", "snake", "panda", "dragon"}

DEFAULT_PET_AGE_DAYS == 10

(* the home page is mounted: it reads the pet ages, subscribes, and its     *)
(* default-age effect runs twice, for the animalId the component starts     *)
(* with ("pig") and for the selected pet the subscription effect loads      *)
mountHome ==
    /\ Idle
    /\ page.mounted = "none"
    /\ listeners' = Append(listeners, "ui")
    /\ closures' = Append(closures, closureOf("ui"))
    /\ LET withAge(ages, id) ==
               IF id \in DOMAIN ages THEN ages
               ELSE [p \in (DOMAIN ages) \cup {id} |->
                        IF p = id THEN DEFAULT_PET_AGE_DAYS ELSE ages[p]]
           next == withAge(withAge(petAges, "pig"), state.animalId)
       IN  /\ petAges' = savePetAges(next)
           /\ page' = [NoPage EXCEPT !.mounted = "home", !.now = page.now, !.petAges = next]
    /\ UNCHANGED <<state, storage, stack, txCreated, last, commits, seen, quota, peer>>

(* the page is left: the cleanups unsubscribe and clear the intervals, the  *)
(* component's state is gone                                                *)
unmount ==
    /\ Idle
    /\ page.mounted # "none"
    /\ listeners' = removeListener("ui")
    /\ closures' = splice1(closures, indexOf(closures, closureOf("ui")))
    /\ page' = [NoPage EXCEPT !.now = page.now]
    /\ UNCHANGED <<state, storage, petAges, stack, txCreated, last, commits, seen, quota, peer>>

(* a pet chip of the map page is clicked: the store call, an age of 0 for   *)
(* a pet the page holds no age of, and the effects of the render that       *)
(* follows, in the order of their declaration: the one that saves the pet   *)
(* ages when the ages the page holds have changed, and the cycle effect     *)
(* when the animalId of the page, which the subscription keeps at the       *)
(* store's, has changed                                                     *)
onPickAnimal(id) ==
    /\ Idle
    /\ page.mounted = "map"
    /\ page.action = <<>>
    /\ LET ages == IF id \in DOMAIN page.petAges THEN page.petAges
                   ELSE [p \in (DOMAIN page.petAges) \cup {id} |->
                            IF p = id THEN 0 ELSE page.petAges[p]]
       IN  page' = [page EXCEPT
                       !.todo = <<StoreCall("setSelectedPet", id, 0, EmptyObj)>>
                                \o (IF ages # page.petAges
                                    THEN <<StoreCall("savePetAges", "", 0, EmptyObj)>>
                                    ELSE <<>>)
                                \o (IF id # state.animalId
                                    THEN <<StoreCall("cycleEffect", "", 0, EmptyObj)>>
                                    ELSE <<>>),
                       !.petAges = ages]
    /\ UNCHANGED <<state, storage, petAges, listeners, stack, txCreated, last,
                   closures, commits, seen, quota, peer>>

(* a pet of the home page is clicked: nothing for a premium pet that is not *)
(* owned, else the store call and the default-age effect for the pet        *)
Home_onPickAnimal(id) ==
    /\ Idle
    /\ page.mounted = "home"
    /\ ~(id \in premium /\ ~state.ownedPets[id])
    /\ page' = [page EXCEPT !.todo = <<StoreCall("setSelectedPet", id, 0, EmptyObj),
                                       StoreCall("defaultPetAge", id, 0, EmptyObj)>>]
    /\ UNCHANGED <<state, storage, petAges, listeners, stack, txCreated, last,
                   closures, commits, seen, quota, peer>>

(* the running handler makes its next store call, or the effect that the    *)
(* handler has caused runs                                                  *)
runCall ==
    /\ stack = <<>>
    /\ page.todo # <<>>
    /\ LET c == Head(page.todo)
           rest == [page EXCEPT !.todo = Tail(@)]
       IN  CASE c.op = "bumpNeed" ->
                  /\ setNeedFrom(c.id, JsAdd(state.needs[c.id], c.n), "bumpNeed", <<c.id, c.n>>)
                  /\ txCreated' = txCreated
                  /\ page' = rest
                  /\ petAges' = petAges
             [] c.op = "applyMoneyDelta" ->
                  /\ Commit([state EXCEPT
                                !.money = JsMax(0, JsAdd(state.money, c.n)),
                                !.transactions = PrependSlice(newTx(Spread(txOfDelta(c.n), c.meta)),
                                                              state.transactions, TX_CAP)],
                            "applyMoneyDelta", <<c.n, 0>>, "return")
                  /\ txCreated' = txCreated + 1
                  /\ page' = rest
                  /\ petAges' = petAges
             [] c.op = "addOwnedAccessory" ->
                  /\ LET add == Max(0, Floor(NumberOrZero(c.n)))
                     IN  IF add <= 0
                         THEN NoCommit("addOwnedAccessory", <<c.id, c.n>>)
                         ELSE Commit([state EXCEPT !.ownedAccessories[c.id] =
                                         JsMax(0, JsAdd(OrZero(state.ownedAccessories[c.id]), add))],
                                     "addOwnedAccessory", <<c.id, c.n>>, "return")
                  /\ txCreated' = txCreated
                  /\ page' = rest
                  /\ petAges' = petAges
             [] c.op = "setSelectedPet" ->
                  /\ Commit([state EXCEPT !.animalId = c.id], "setSelectedPet", <<c.id, 0>>, "return")
                  /\ txCreated' = txCreated
                  /\ page' = rest
                  /\ petAges' = petAges
             [] c.op = "savePetAges" ->
                  /\ petAges' = savePetAges(page.petAges)
                  /\ page' = rest
                  /\ UNCHANGED <<state, storage, stack, txCreated, last, commits, seen>>
             [] c.op = "cycleEffect" ->
                  /\ page' = IF page.now - page.cycleStartMs >= CYCLE_MS
                             THEN [page EXCEPT
                                      !.needs = [n \in DOMAIN page.needs |->
                                                    clamp(page.needs[n] - cycleDecay[n])],
                                      !.todo = Tail(@) \o <<Pay(100, "Cycle Reward",
                                                                "30-minute reward")>>,
                                      !.cycleStartMs = page.now]
                             ELSE rest
                  /\ UNCHANGED <<state, storage, petAges, stack, txCreated, last, commits, seen>>
             [] c.op = "defaultPetAge" ->
                  /\ IF c.id \in DOMAIN page.petAges
                     THEN /\ page' = rest
                          /\ petAges' = petAges
                     ELSE LET next == [p \in (DOMAIN page.petAges) \cup {c.id} |->
                                          IF p = c.id THEN DEFAULT_PET_AGE_DAYS
                                          ELSE page.petAges[p]]
                          IN  /\ page' = [rest EXCEPT !.petAges = next]
                              /\ petAges' = savePetAges(next)
                  /\ UNCHANGED <<state, storage, stack, txCreated, last, commits, seen>>
    /\ UNCHANGED <<listeners, closures, quota, peer>>

(* what the storage may hold when play starts: nothing, or a state in which *)
(* one meal completes the needs                                             *)
PlayBlobs ==
    {<<>>,
     <<[defaultState EXCEPT !.needs = [saturatedNeeds EXCEPT !["hunger"] = 62]]>>}

InitPlay ==
    /\ storage \in PlayBlobs
    /\ petAges = EmptyObj
    /\ state = bootState(storage)
    /\ listeners = <<>>
    /\ stack = <<>>
    /\ txCreated = 0
    /\ last = Loaded
    /\ Quiet

(* play: a button, the wait for it, its effects *)
NextPlay ==
    \/ mountMap
    \/ \E b \in actionButtons :
          /\ page.now + b.durationMs <= MaxNow
          /\ startAction(b)
    \/ /\ page.action # <<>>
       /\ page.now < page.action[1].startedAt + page.action[1].durationMs
       /\ elapse(page.action[1].durationMs)
    \/ actionTick
    \/ runCall
    \/ notify
    \/ advanceDayBecauseNeedsComplete
    \/ return

SpecPlay == InitPlay /\ [][NextPlay]_vars

(* the clock moves while an action is running and not yet due: to the       *)
(* middle of the action, or to its end                                      *)
Tock ==
    /\ page.action # <<>>
    /\ LET a == page.action[1]
       IN  /\ page.now < a.startedAt + a.durationMs
           /\ \E t \in {a.startedAt + a.durationMs \div 2, a.startedAt + a.durationMs} :
                  /\ t > page.now
                  /\ elapse(t - page.now)

(* the buttons the timers are watched with *)
TimedButtons ==
    {b \in actionButtons :
        b.label \in {"Eat meal", "Treat snack", "Buy toy", "Buy small toy", "Buy collar"}}

(* the action timer: the page is opened and left, buttons are clicked, the  *)
(* clock moves and the interval fires                                       *)
NextTimers ==
    \/ mountMap
    \/ unmount
    \/ \E b \in TimedButtons :
          /\ page.now + b.durationMs <= MaxNow
          /\ startAction(b)
    \/ Tock
    \/ actionTick
    \/ runCall
    \/ notify
    \/ advanceDayBecauseNeedsComplete
    \/ return

(* what happens without the user, apart from the handler's next call: the  *)
(* clock moves, an interval that is due fires, a store call runs to its     *)
(* end; at most one of these can happen in a state                          *)
Browser ==
    \/ Tock
    \/ actionTick
    \/ notify
    \/ advanceDayBecauseNeedsComplete
    \/ return

(* the cycle is applied, and applied again by the next tick of the          *)
(* interval: the start of the cycle is left as it was                       *)
applyCycle_keepsStart ==
    /\ Idle
    /\ page.mounted = "map"
    /\ page.now - page.cycleStartMs >= CYCLE_MS
    /\ page' = [page EXCEPT
                   !.needs = [n \in DOMAIN page.needs |-> clamp(page.needs[n] - cycleDecay[n])],
                   !.todo = <<Pay(100, "Cycle Reward", "30-minute reward")>>]
    /\ UNCHANGED <<state, storage, petAges, listeners, stack, txCreated, last,
                   closures, commits, seen, quota, peer>>

(* the cycle effect finds, when it runs or when its interval fires, that    *)
(* the cycle is over: the needs of the page decay, the store is asked for   *)
(* the reward, the next cycle starts now                                    *)
applyCycle ==
    /\ Idle
    /\ page.mounted = "map"
    /\ page.now - page.cycleStartMs >= CYCLE_MS
    /\ page' = [page EXCEPT
                   !.needs = [n \in DOMAIN page.needs |-> clamp(page.needs[n] - cycleDecay[n])],
                   !.todo = <<Pay(100, "Cycle Reward", "30-minute reward")>>,
                   !.cycleStartMs = page.now]
    /\ UNCHANGED <<state, storage, petAges, listeners, stack, txCreated, last,
                   closures, commits, seen, quota, peer>>

(* where the clock moves while no action is running: to the last tick of   *)
(* the interval before the cycle is over, to the end of the cycle, a cycle  *)
(* later (the timers of a tab in the background are late)                   *)
CycleTimes ==
    {page.cycleStartMs + d : d \in {CYCLE_MS - 1000, CYCLE_MS, 2 * CYCLE_MS}}

(* the cycle: the map page is opened and left, another pet is picked, a    *)
(* meal is had, the clock moves and the cycle is applied                    *)
NextCycle ==
    \/ mountMap
    \/ unmount
    \/ \E t \in CycleTimes :
          /\ page.action = <<>>
          /\ page.now < t
          /\ t <= MaxCycles * CYCLE_MS + MaxNow
          /\ elapse(t - page.now)
    \/ applyCycle
    \/ /\ state.animalId # "cat"
       /\ onPickAnimal("cat")
    \/ \E b \in {a \in actionButtons : a.label = "Eat meal"} :
          /\ page.now + b.durationMs <= MaxNow
          /\ startAction(b)
    \/ Tock
    \/ actionTick
    \/ runCall
    \/ notify
    \/ advanceDayBecauseNeedsComplete
    \/ return

SpecCycle == InitPlay /\ [][NextCycle]_vars

(* ENABLED runCall, written out *)
runCallEnabled ==
    /\ stack = <<>>
    /\ page.todo # <<>>
    /\ LET c == Head(page.todo)
       IN  c.op = "bumpNeed" =>
              \/ allNeedsComplete(state.needs)
              \/ ~allNeedsComplete(clampNeeds([state.needs EXCEPT
                                                  ![c.id] = JsAdd(state.needs[c.id], c.n)]))
              \/ DayBound

(* clicks and navigation are up to the user, the rest happens: weak         *)
(* fairness of Browser and of runCall                                       *)
FairTimers ==
    /\ InitPlay
    /\ [][NextTimers]_vars
    /\ WF_vars(Browser)
    /\ ([]<>(~runCallEnabled) \/ []<><<runCall>>_vars)

(* the same of the cycle: its interval fires too; the clock between the     *)
(* actions moves as it likes                                                *)
FairCycle ==
    /\ SpecCycle
    /\ WF_vars(Browser)
    /\ WF_vars(applyCycle)
    /\ ([]<>(~runCallEnabled) \/ []<><<runCall>>_vars)

(* the pet ages the storage may hold when a page is opened *)
AgesBlobs == {EmptyObj, [dog |-> 3], [cat |-> 2]}

InitAges ==
    /\ storage \in PlayBlobs
    /\ petAges \in AgesBlobs
    /\ state = bootState(storage)
    /\ listeners = <<>>
    /\ stack = <<>>
    /\ txCreated = 0
    /\ last = Loaded
    /\ Quiet

(* the pages and the pet ages: the two pages are opened and left, pets are  *)
(* picked on them, and a meal on the map page completes the needs           *)
NextAges ==
    \/ mountMap
    \/ mountHome
    \/ unmount
    \/ \E id \in {"cat", "fox", "dragon"} : onPickAnimal(id)
    \/ \E id \in {"cat", "fox", "dragon"} : Home_onPickAnimal(id)
    \/ \E b \in {a \in actionButtons : a.label = "Eat meal"} :
          /\ page.now + b.durationMs <= MaxNow
          /\ startAction(b)
    \/ /\ page.action # <<>>
       /\ page.now < page.action[1].startedAt + page.action[1].durationMs
       /\ elapse(page.action[1].durationMs)
    \/ actionTick
    \/ runCall
    \/ notify
    \/ advanceDayBecauseNeedsComplete
    \/ return

SpecAges == InitAges /\ [][NextAges]_vars

(* the localStorage keys of the store *)
StorageKeys == {"game", "ages"}

(* a store on a storage that may refuse writes from the start *)
InitFaulty ==
    /\ storage \in {<<>>, <<[defaultState EXCEPT !.needs = nearlyDone]>>}
    /\ petAges \in PetAgesBlobs
    /\ state = bootState(storage)
    /\ listeners = <<>>
    /\ stack = <<>>
    /\ txCreated = 0
    /\ last = Loaded
    /\ closures = <<>>
    /\ commits = 0
    /\ seen = EmptyObj
    /\ quota \in SUBSET StorageKeys
    /\ peer = <<>>
    /\ page = NoPage

(* the storage starts or stops refusing writes to some of the keys (quota   *)
(* exceeded, storage disabled), at any moment                              *)
storageFault(keys) ==
    /\ keys # quota
    /\ quota' = keys
    /\ UNCHANGED <<state, storage, petAges, listeners, stack, txCreated, last,
                   closures, commits, seen, peer, page>>

NextFaulty ==
    \/ /\ Len(listeners) < MaxListeners
       /\ subscribeGameState("ui")
    \/ \E keys \in SUBSET StorageKeys : storageFault(keys)
    \/ \E p \in PetInputs : setSelectedPet(p)
    \/ setNeed("sleep", 100)
    \/ notify
    \/ advanceDayBecauseNeedsComplete
    \/ return

SpecFaulty == InitFaulty /\ [][NextFaulty]_vars

(* the badges: stores booted just below each threshold *)
InitBadges ==
    /\ storage \in BadgeBlobs
    /\ petAges = EmptyObj
    /\ state = bootState(storage)
    /\ listeners = <<>>
    /\ stack = <<>>
    /\ txCreated = 0
    /\ last = Loaded
    /\ Quiet

NextBadges ==
    \/ \E a \in AccessoryIds, c \in {1, 2} :
          /\ totalAccessoriesOwned(state.ownedAccessories) + c <= MaxTotal
          /\ addOwnedAccessory(a, c)
    \/ setNeed("sleep", 100)
    \/ advanceDayBecauseNeedsComplete
    \/ return

SpecBadges == InitBadges /\ [][NextBadges]_vars

(* delivery: callbacks that unsubscribe themselves or subscribe another    *)
(* callback while persist() is invoking them                               *)
NextDelivery ==
    \/ \E cb \in DeliveryCallbacks :
          /\ Len(closures) < MaxRegs
          /\ cb = "once" => indexOf(listeners, "once") = 0
          /\ subscribeGameState(cb)
    \/ \E p \in PetInputs : setSelectedPet(p)
    \/ notify
    \/ return

SpecDelivery == InitDefault /\ [][NextDelivery]_vars

(* reentrancy: the callback "re" calls setSelectedPet while persist() is    *)
(* invoking it, next to a callback that only reads                         *)
NextNested ==
    \/ \E cb \in Callbacks :
          /\ Len(closures) < MaxRegs
          /\ subscribeGameState(cb)
    \/ \E p \in PetInputs : setSelectedPet(p)
    \/ notify
    \/ return

SpecNested == InitDefault /\ [][NextNested]_vars

(* unsubscribing: callers keep the functions subscribeGameState returned   *)
(* and call them, also more than once                                      *)
NextUnsubscribe ==
    \/ \E cb \in ReaderCallbacks :
          /\ Len(closures) < MaxRegs
          /\ subscribeGameState(cb)
    \/ \E k \in 1..MaxRegs : callUnsubscribe(k)
    \/ \E p \in PetInputs : setSelectedPet(p)
    \/ notify
    \/ return

SpecUnsubscribe == InitDefault /\ [][NextUnsubscribe]_vars

(* the balance: applyMoneyDelta and purchasePremiumPet *)
NextMoney ==
    \/ /\ Len(listeners) < MaxListeners
       /\ subscribeGameState("ui")
    \/ \E d \in MoneyDeltas :
          /\ txCreated < MaxLedger
          /\ state.money + d <= MaxBalance
          /\ applyMoneyDelta(d)
    \/ \E p \in PurchasePets, c \in CostInputs :
          /\ txCreated < MaxLedger
          /\ purchasePremiumPet(p, c)
    \/ notify
    \/ return

SpecMoney == InitMoney /\ [][NextMoney]_vars

(* the same calls on a store that starts from the default state *)
SpecLedger == InitDefault /\ [][NextMoney]_vars

(* the page is loaded without a blob, or with a blob that normalize has to  *)
(* repair                                                                   *)
InitReload ==
    /\ storage \in {<<>>, <<dirtyState>>, <<nullState>>}
    /\ petAges = EmptyObj
    /\ state = bootState(storage)
    /\ listeners = <<>>
    /\ stack = <<>>
    /\ txCreated = 0
    /\ last = Loaded
    /\ Quiet

(* commits and reloads of the page: the store boots again from what it has  *)
(* persisted                                                                *)
NextReload ==
    \/ /\ Len(listeners) < MaxListeners
       /\ subscribeGameState("ui")
    \/ \E d \in {-2, 3} :
          /\ txCreated < MaxLedger
          /\ state.money + d <= MaxBalance
          /\ applyMoneyDelta(d)
    \/ \E p \in {"cat", "fox"} : setSelectedPet(p)
    \/ \E p \in PurchasePets :
          /\ txCreated < MaxLedger
          /\ purchasePremiumPet(p, 3)
    \/ \E c \in {1, Half(1)} :
          /\ OrZero(state.ownedAccessories["collar"]) < MaxOwned
          /\ addOwnedAccessory("collar", c)
    \/ setNeed("fun", 50)
    \/ notify
    \/ return
    \/ reload

SpecReload == InitReload /\ [][NextReload]_vars

(* the transaction list up to and past its cap: the three logging          *)
(* operations are mixed freely for the first MixWindow transactions and    *)
(* from the last one before the cap on; in between the list is filled by   *)
(* addTransaction with one fixed entry                                     *)
FillerTx == [type |-> "income", amount |-> 4, category |-> "Manual", note |-> "n"]

Mixing == txCreated < MixWindow \/ txCreated >= TX_CAP - 1

NextTx ==
    \/ \E tx \in TxInputs :
          /\ txCreated < TX_CAP + MaxOverflow
          /\ Mixing \/ tx = FillerTx
          /\ addTransaction(tx)
    \/ \E d \in {-2, 3} :
          /\ txCreated < TX_CAP + MaxOverflow
          /\ Mixing
          /\ state.money + d <= MaxBalance
          /\ applyMoneyDelta(d)
    \/ /\ txCreated < TX_CAP + MaxOverflow
       /\ Mixing
       /\ purchasePremiumPet("dragon", 0)
    \/ return

SpecTx == InitDefault /\ [][NextTx]_vars

(***************************************************************************)
(* Vocabulary of the properties                                            *)
(***************************************************************************)
(* the running call is about to return: what it leaves behind is final *)
ReadyToReturn == stack # <<>> /\ Top.i > Top.len /\ Top.cont = "return"

IsNeedCall(f) == f.op \in {"setNeed", "bumpNeed"}

Saturated(needs) == \A n \in NeedIds : needs[n] >= 100

(* the value a need call asks for, before any clamping *)
Requested(f) == IF f.op = "setNeed" THEN f.arg[2] ELSE f.entry.needs[f.arg[1]] + f.arg[2]

RequestedNeeds(f) == [f.entry.needs EXCEPT ![f.arg[1]] = Requested(f)]

RisingEdge(f) == ~Saturated(f.entry.needs) /\ Saturated(RequestedNeeds(f))

(* the day-advance trigger fires in the next step *)
TriggerFires == stack # <<>> /\ Top.i > Top.len /\ Top.cont = "advance"

(***************************************************************************)
(* C1: a setNeed/bumpNeed call that takes the needs from not-all->=100 to  *)
(* all->=100 leaves daysPlayed one higher and the five needs at their      *)
(* defaults; any other need call leaves daysPlayed as it was, in           *)
(* particular the same call repeated right after the one that advanced.    *)
(***************************************************************************)
DayAdvanceRisingEdgeOnly ==
    (ReadyToReturn /\ IsNeedCall(Top) /\ ~Top.nested) =>
        /\ RisingEdge(Top) =>
              /\ state.daysPlayed = Top.entry.daysPlayed + 1
              /\ state.needs = defaultState.needs
        /\ ~RisingEdge(Top) => state.daysPlayed = Top.entry.daysPlayed
        /\ Top.prev = <<[op |-> Top.op, arg |-> Top.arg]>> =>
              state.daysPlayed = Top.entry.daysPlayed

RepeatedCallAfterAdvance ==
    /\ ReadyToReturn
    /\ Top.op = "setNeed"
    /\ Top.prev = <<[op |-> "setNeed", arg |-> Top.arg]>>
    /\ Top.arg[2] >= 100
    /\ state.daysPlayed >= 1
    /\ state.daysPlayed = Top.entry.daysPlayed

(***************************************************************************)
(* C2: a setNeed entered with all needs >= 100 that keeps them there       *)
(* changes neither daysPlayed nor any pet age and leaves the needs at 100. *)
(***************************************************************************)
NoRetriggerWhenSaturated ==
    (/\ ReadyToReturn
     /\ IsNeedCall(Top)
     /\ ~Top.nested
     /\ Saturated(Top.entry.needs)
     /\ Saturated(RequestedNeeds(Top))) =>
        /\ state.daysPlayed = Top.entry.daysPlayed
        /\ petAges = Top.entryAges
        /\ state.needs = saturatedNeeds
        /\ Len(Top.committed) = 1

(* a listener re-affirms 100 during the transient commit of a saturating call *)
ReaffirmedInsideTransientCommit ==
    /\ Len(stack) = 2
    /\ ReadyToReturn
    /\ stack[1].cont = "advance"
    /\ Top.op = "setNeed"
    /\ Saturated(Top.entry.needs)
    /\ Top.arg[2] >= 100
    /\ state.needs = saturatedNeeds

(***************************************************************************)
(* C3: a saturating need call commits exactly twice: first the needs all   *)
(* at 100 with the old daysPlayed, then daysPlayed + 1 together with the   *)
(* needs at their defaults.  The in-memory state, the stored blob and the  *)
(* state handed to the listeners are always one of these two.              *)
(***************************************************************************)
TwoCommitsOnSaturation ==
    \A k \in 1..Len(stack) :
        LET f == stack[k]
            n == Len(f.committed)
        IN  (IsNeedCall(f) /\ RisingEdge(f) /\ ~f.nested) =>
                /\ n \in {1, 2}
                /\ f.committed[1].needs = saturatedNeeds
                /\ f.committed[1].daysPlayed = f.entry.daysPlayed
                /\ n = 2 =>
                      /\ f.committed[2].daysPlayed = f.entry.daysPlayed + 1
                      /\ f.committed[2].needs = defaultState.needs
                /\ (n = 1) = (f.cont = "advance")
                /\ k = Len(stack) => (state = f.committed[n] /\ storage = <<state>>)

SecondCommitNotified ==
    /\ ReadyToReturn
    /\ IsNeedCall(Top)
    /\ RisingEdge(Top)
    /\ Len(Top.committed) = 2
    /\ Top.len >= 1

(***************************************************************************)
(* C4: every need is an integer in 0..100 in every state, and a need call  *)
(* stores its requested value cut to that range: 100 when it is above 100, *)
(* 0 when it is below 0.                                                   *)
(***************************************************************************)
ClampingInvariant ==
    /\ \A n \in NeedIds : state.needs[n] \in 0..100
    /\ \A k \in 1..Len(stack) :
          LET f == stack[k]
              r == Requested(f)
          IN  IsNeedCall(f) =>
                f.committed[1].needs[f.arg[1]] =
                    (IF r > 100 THEN 100 ELSE IF r < 0 THEN 0 ELSE r)

OutOfRangeStored ==
    /\ stack # <<>>
    /\ Top.op = "setNeed"
    /\ Top.arg[2] > 100
    /\ Top.entry.needs[Top.arg[1]] < 100
    /\ state.needs[Top.arg[1]] = 100
    /\ Top.cont = "return"

(***************************************************************************)
(* C6: the step in which the day-advance trigger fires adds 1 to the       *)
(* stored age of state.animalId (a missing entry counting as 0) and keeps  *)
(* every other entry; no other step changes the stored pet ages.           *)
(***************************************************************************)
PetAgeOnlyOnDayAdvance ==
    [][IF TriggerFires
       THEN LET pet == state.animalId
                old == IF pet \in DOMAIN petAges THEN petAges[pet] ELSE 0
            IN  /\ DOMAIN petAges' = (DOMAIN petAges) \cup {pet}
                /\ petAges'[pet] = old + 1
                /\ \A p \in (DOMAIN petAges) \ {pet} : petAges'[p] = petAges[p]
       ELSE petAges' = petAges]_vars

MissingAgeCountedFromZero ==
    /\ stack # <<>>
    /\ Top.adv
    /\ state.animalId \notin DOMAIN Top.entryAges
    /\ state.animalId \in DOMAIN petAges
    /\ petAges[state.animalId] = 1
    /\ \E p \in DOMAIN Top.entryAges : petAges[p] = Top.entryAges[p]

(***************************************************************************)
(* C5: daysPlayed never decreases; the only step that changes it is the    *)
(* day-advance trigger, which adds 1, so no call of setSelectedPet,        *)
(* setEquippedAccessory, addTransaction, applyMoneyDelta,                  *)
(* addOwnedAccessory, purchasePremiumPet or incrementDaysPlayed changes    *)
(* it; incrementDaysPlayed commits nothing, runs no forEach and leaves     *)
(* state, storage, pet ages and listeners as they were.                    *)
(***************************************************************************)
CallStep(op) == Len(stack') = Len(stack) + 1 /\ stack'[Len(stack')].op = op

DaysPlayedOnlyByTrigger ==
    [][/\ state'.daysPlayed >= state.daysPlayed
       /\ state'.daysPlayed # state.daysPlayed =>
             (TriggerFires /\ state'.daysPlayed = state.daysPlayed + 1)
       /\ \A op \in {"setSelectedPet", "setEquippedAccessory", "addTransaction",
                     "applyMoneyDelta", "addOwnedAccessory", "purchasePremiumPet",
                     "incrementDaysPlayed"} :
             CallStep(op) => state'.daysPlayed = state.daysPlayed
       /\ CallStep("incrementDaysPlayed") =>
             /\ state' = state
             /\ storage' = storage
             /\ petAges' = petAges
             /\ listeners' = listeners
             /\ stack'[Len(stack')].committed = <<>>
             /\ stack'[Len(stack')].len = 0]_vars

IncrementIgnoredAfterAdvance ==
    /\ stack # <<>>
    /\ Top.op = "incrementDaysPlayed"
    /\ Top.arg[1] = 1
    /\ listeners # <<>>
    /\ state.daysPlayed = 1
    /\ state = Top.entry

(***************************************************************************)
(* C10: an accessory that is equipped is owned at least once.              *)
(***************************************************************************)
EquipInvariant ==
    \A a \in AccessoryIds :
        state.equippedAccessories[a] => state.ownedAccessories[a] > 0

EquipOfUnownedRejected ==
    /\ stack # <<>>
    /\ Top.op = "setEquippedAccessory"
    /\ Top.arg = <<"leash", TRUE>>
    /\ Top.committed = <<>>
    /\ state.ownedAccessories["leash"] = 0
    /\ ~state.equippedAccessories["leash"]
    /\ state.equippedAccessories["collar"]

(***************************************************************************)
(* C7: purchasePremiumPet(id, cost) on an unowned pet with money >= cost   *)
(* commits once: money is lower by cost, ownedPets[id] is true and one     *)
(* expense transaction of amount cost is prepended.  On an owned pet (as   *)
(* for a second identical call) or with money < cost, it commits nothing   *)
(* and leaves the state as it was.                                         *)
(***************************************************************************)
PurchaseAtomicity ==
    (ReadyToReturn /\ Top.op = "purchasePremiumPet" /\ ~Top.nested) =>
        LET id == Top.arg[1]
            cost == Top.arg[2]
            e == Top.entry
        IN  IF ~e.ownedPets[id] /\ e.money >= cost
            THEN /\ Len(Top.committed) = 1
                 /\ state = Top.committed[1]
                 /\ state.money = e.money - cost
                 /\ state.ownedPets = [e.ownedPets EXCEPT ![id] = TRUE]
                 /\ Len(state.transactions) = Len(e.transactions) + 1
                 /\ Tail(state.transactions) = e.transactions
                 /\ Head(state.transactions).type = "expense"
                 /\ Head(state.transactions).amount = cost
                 /\ [state EXCEPT !.money = 0, !.ownedPets = 0, !.transactions = 0]
                      = [e EXCEPT !.money = 0, !.ownedPets = 0, !.transactions = 0]
            ELSE /\ Top.committed = <<>>
                 /\ state = e

SecondPurchaseIsNoOp ==
    /\ ReadyToReturn
    /\ Top.op = "purchasePremiumPet"
    /\ Top.arg = <<"dragon", 3>>
    /\ Top.entry.ownedPets["dragon"]
    /\ Top.entry.money >= 3
    /\ Top.entry.transactions # <<>>
    /\ Head(Top.entry.transactions).category = "Pet Purchase"
    /\ Head(Top.entry.transactions).amount = 3
    /\ state = Top.entry

(***************************************************************************)
(* C8: money is never negative; applyMoneyDelta(delta) with delta < -money *)
(* leaves money at 0 and prepends an expense transaction of amount |delta|. *)
(***************************************************************************)
MoneyFloor ==
    /\ state.money >= 0
    /\ \A k \in 1..Len(stack) :
          LET f == stack[k]
              delta == f.arg[1]
          IN  (f.op = "applyMoneyDelta" /\ delta < -f.entry.money) =>
                /\ f.committed[1].money = 0
                /\ Head(f.committed[1].transactions).type = "expense"
                /\ Head(f.committed[1].transactions).amount = -delta
                /\ Tail(f.committed[1].transactions) = f.entry.transactions

OverdraftFloored ==
    /\ stack # <<>>
    /\ Top.op = "applyMoneyDelta"
    /\ Top.arg[1] = -1000000
    /\ Top.entry.money > 0
    /\ state.money = 0
    /\ Head(state.transactions).amount = 1000000

(***************************************************************************)
(* C9: with n transactions created since the default state, the list has   *)
(* min(n, 250) entries, which are the most recently created ones, newest   *)
(* first; a step that creates k transactions shifts the retained entries   *)
(* down by k places and changes none of them.                              *)
(***************************************************************************)
TransactionCapAndOrder ==
    /\ [](LET t == state.transactions
          IN  /\ Len(t) = (IF txCreated <= 250 THEN txCreated ELSE 250)
              /\ \A k \in 1..Len(t) : t[k].id = txCreated - k + 1)
    /\ [][LET created == txCreated' - txCreated
          IN  \A k \in (created + 1)..Len(state'.transactions) :
                 state'.transactions[k] = state.transactions[k - created]]_vars

OldestDroppedAtCap ==
    /\ txCreated > 250
    /\ Len(state.transactions) = 250
    /\ state.transactions[250].id = txCreated - 249
    /\ state.transactions[1].category \in {"Game Earned", "Game Spent", "Pet Purchase"}
    /\ \E k \in 2..250 : state.transactions[k].category # "Manual"

(***************************************************************************)
(* C11: a rejected call is a silent no-op.  setEquippedAccessory(a, true)  *)
(* with owned count 0, addOwnedAccessory with a count whose floor is <= 0  *)
(* and purchasePremiumPet on an owned pet or with money < cost leave the   *)
(* in-memory state, the stored blob, the pet ages and the listeners as     *)
(* they were, run no persist() and invoke no listener, up to their return. *)
(***************************************************************************)
(* the whole part of a count: n of n and of n + 1/2 *)
Whole(c) == CHOOSE n \in -3..3 : c \in {n, Half(n)}

Rejects(f) ==
    \/ f.op = "setEquippedAccessory" /\ f.arg[2] /\ f.entry.ownedAccessories[f.arg[1]] <= 0
    \/ f.op = "addOwnedAccessory" /\ Whole(f.arg[2]) <= 0
    \/ f.op = "purchasePremiumPet" /\ (f.entry.ownedPets[f.arg[1]] \/ f.entry.money < f.arg[2])

RejectedMutationsSilent ==
    /\ [](\A k \in 1..Len(stack) :
            Rejects(stack[k]) =>
                /\ stack[k].committed = <<>>
                /\ stack[k].len = 0
                /\ stack[k].got = <<>>
                /\ k = Len(stack) => state = stack[k].entry)
    /\ [][(Len(stack') = Len(stack) + 1 /\ Rejects(stack'[Len(stack')])) =>
             /\ state' = state
             /\ storage' = storage
             /\ petAges' = petAges
             /\ listeners' = listeners
             /\ commits' = commits]_vars

(* the dragon has been paid for, and the listener has heard of it; it is   *)
(* bought again, and the call returns with nothing committed and the       *)
(* listener not called                                                      *)
RejectedRepurchaseWithListener ==
    /\ ReadyToReturn
    /\ Top.op = "purchasePremiumPet"
    /\ Top.arg = <<"dragon", 3>>
    /\ Top.entry.ownedPets["dragon"]
    /\ \E k \in 1..Len(state.transactions) :
          /\ state.transactions[k].category = "Pet Purchase"
          /\ state.transactions[k].amount = 3
    /\ listeners # <<>>
    /\ Top.committed = <<>>
    /\ Top.got = <<>>
    /\ state = Top.entry
    /\ storage = <<state>>

(***************************************************************************)
(* C12: in the boot state and in every committed state the badges are the  *)
(* nine thresholds applied to the state: accessory_k is (collar + leash +  *)
(* headband owned) >= k and days_k is daysPlayed >= k, whatever badges the *)
(* persisted blob or the candidate of the commit carried.                  *)
(***************************************************************************)
BadgeThreshold ==
    [accessory_1 |-> 1, accessory_2 |-> 2, accessory_4 |-> 4,
     days_5 |-> 5, days_10 |-> 10, days_15 |-> 15,
     days_25 |-> 25, days_50 |-> 50, days_100 |-> 100]

OwnedTotal(s) ==
    s.ownedAccessories["collar"] + s.ownedAccessories["leash"] + s.ownedAccessories["headband"]

BadgesMatch(s) ==
    /\ DOMAIN s.badges = DOMAIN BadgeThreshold
    /\ \A b \in DOMAIN BadgeThreshold :
          s.badges[b] =
              ((IF b \in {"accessory_1", "accessory_2", "accessory_4"}
                THEN OwnedTotal(s) ELSE s.daysPlayed) >= BadgeThreshold[b])

BadgesPureFunction ==
    /\ BadgesMatch(state)
    /\ \A k \in 1..Len(stack) :
          \A j \in 1..Len(stack[k].committed) : BadgesMatch(stack[k].committed[j])

StaleCandidateBadgesReplaced ==
    /\ ReadyToReturn
    /\ Top.op = "addOwnedAccessory"
    /\ Top.entry.daysPlayed = 5
    /\ storage # <<>>
    /\ storage[1].badges["days_5"]
    /\ ~storage[1].badges["days_10"]
    /\ ~Top.entry.badges["accessory_2"]
    /\ state.badges["accessory_2"]
    /\ ~state.badges["accessory_4"]

(***************************************************************************)
(* C13: no step turns a badge from true to false; a call of                *)
(* addOwnedAccessory adds its count to the owned total, and accessory_1,   *)
(* accessory_2, accessory_4 turn true in exactly the call that takes the   *)
(* total from below 1, 2, 4 to at least that.                              *)
(***************************************************************************)
BadgeMonotonicity ==
    [][/\ \A b \in DOMAIN state.badges : state.badges[b] => state'.badges[b]
       /\ CallStep("addOwnedAccessory") =>
             LET before == OwnedTotal(state)
                 after == OwnedTotal(state')
                 count == stack'[Len(stack')].arg[2]
             IN  /\ after = before + count
                 /\ \A b \in {"accessory_1", "accessory_2", "accessory_4"} :
                       (~state.badges[b] /\ state'.badges[b]) =
                           (before < BadgeThreshold[b] /\ after >= BadgeThreshold[b])]_vars

FourthAccessoryAfterDayBadge ==
    /\ ReadyToReturn
    /\ Top.op = "addOwnedAccessory"
    /\ OwnedTotal(Top.entry) = 3
    /\ OwnedTotal(state) = 5
    /\ ~Top.entry.badges["accessory_4"]
    /\ Top.entry.badges["accessory_2"]
    /\ state.badges["accessory_4"]
    /\ state.badges["days_10"]
    /\ state.daysPlayed = 10

(***************************************************************************)
(* C14: every persist() invokes the listeners that were registered when    *)
(* its forEach started, each exactly once, in registration order and with  *)
(* the state it committed, and has invoked them all when the forEach ends  *)
(* (before the mutator returns); also when a callback unsubscribes itself  *)
(* or subscribes another callback while it is being invoked.               *)
(***************************************************************************)
ListenerDelivery ==
    \A k \in 1..Len(stack) :
        LET f == stack[k]
        IN  f.committed # <<>> =>
                /\ Len(f.got) <= Len(f.snap)
                /\ \A j \in 1..Len(f.got) :
                      /\ f.got[j].cb = f.snap[j]
                      /\ f.got[j].st = nextOf(f)
                /\ f.i > f.len => Len(f.got) = Len(f.snap)

(***************************************************************************)
(* C15: no commit begins while the forEach of an earlier commit still has  *)
(* listeners to invoke; no callback is handed a commit older than one it   *)
(* has been handed; and when the outermost mutator call is about to        *)
(* return, the commit each registered callback was handed last is the last *)
(* commit, whose state is the one loadGameState() returns.  Callbacks may  *)
(* call mutators.                                                          *)
(***************************************************************************)
CommitOrderDelivery ==
    /\ \A k \in 1..(Len(stack) - 1) :
          (\E j \in (k + 1)..Len(stack) : stack[j].committed # <<>>) =>
              stack[k].i > stack[k].len
    /\ (stack # <<>> /\ Top.i <= Top.len /\ Top.i <= Len(listeners)) =>
          (listeners[Top.i] \in DOMAIN seen => seen[listeners[Top.i]] <= Top.n)
    /\ (Len(stack) = 1 /\ ReadyToReturn /\ Top.committed # <<>>) =>
          /\ \A j \in 1..Len(listeners) :
                /\ listeners[j] \in DOMAIN seen
                /\ seen[listeners[j]] = commits

(***************************************************************************)
(* C16: a registration is in the listeners array exactly as long as the    *)
(* function its subscribeGameState call returned has not been called: the  *)
(* first call removes that registration, a later call of the same function *)
(* removes nothing, and no call removes the registration of another        *)
(* subscribeGameState call, not even one of the same callback.  So every   *)
(* commit invokes a callback once for each of its registrations whose      *)
(* function has not been called.                                           *)
(***************************************************************************)
Registered(cb) == {k \in 1..Len(closures) : closures[k].cb = cb /\ ~closures[k].called}

Occurrences(seq, cb) == Cardinality({j \in 1..Len(seq) : seq[j] = cb})

Invocations(f, cb) == Cardinality({j \in 1..Len(f.got) : f.got[j].cb = cb})

UnsubscribeExact ==
    \A c \in 1..Len(closures) :
        LET cb == closures[c].cb
        IN  /\ Occurrences(listeners, cb) = Cardinality(Registered(cb))
            /\ (stack # <<>> /\ Top.committed # <<>> /\ Top.i > Top.len) =>
                  Invocations(Top, cb) = Cardinality(Registered(cb))

(***************************************************************************)
(* C17: whether or not the storage takes the write, every setSelectedPet   *)
(* and setNeed call commits: the in-memory state is the candidate,         *)
(* normalized and with recomputed badges, and every registered listener    *)
(* has been invoked with it when the forEach ends.  A call that completes  *)
(* the needs returns with daysPlayed one higher and the needs reset, also  *)
(* when the pet-age write was refused and the stored ages stayed as they   *)
(* were.                                                                   *)
(***************************************************************************)
CommitDespiteStorageFailure ==
    \A k \in 1..Len(stack) :
        LET f == stack[k]
            e == f.entry
            first == f.committed[1]
        IN  /\ f.committed # <<>>
            /\ f.op = "setSelectedPet" => first = [e EXCEPT !.animalId = f.arg[1]]
            /\ f.op = "setNeed" => first = [e EXCEPT !.needs[f.arg[1]] = Min(100, Max(0, f.arg[2]))]
            /\ \A j \in 1..Len(f.committed) :
                  /\ BadgesMatch(f.committed[j])
                  /\ \A n \in NeedIds : f.committed[j].needs[n] \in 0..100
            /\ k = Len(stack) => state = nextOf(f)
            /\ f.i > f.len =>
                  /\ Len(f.got) = Len(listeners)
                  /\ \A j \in 1..Len(f.got) : f.got[j] = [cb |-> listeners[j], st |-> nextOf(f)]
            /\ (k = Len(stack) /\ ReadyToReturn /\ IsNeedCall(f) /\ RisingEdge(f)) =>
                  /\ f.adv
                  /\ state.daysPlayed = e.daysPlayed + 1
                  /\ state.needs = defaultState.needs

AdvancedWhileStorageRefusesWrites ==
    /\ ReadyToReturn
    /\ Top.adv
    /\ quota = StorageKeys
    /\ storage # <<>>
    /\ storage[1].needs = nearlyDone
    /\ storage[1].animalId = "dog"
    /\ petAges = Top.entryAges
    /\ state.daysPlayed = 1
    /\ state.animalId = "fox"
    /\ state.needs = defaultState.needs
    /\ Len(Top.got) = 1
    /\ Top.got[1].st = state

(***************************************************************************)
(* Boot recovery (gameStore.ts:115-122, 145-165, 222-230)                  *)
(***************************************************************************)
NestedFields == {"ownedPets", "ownedAccessories", "equippedAccessories", "needs"}

(* the blob o gives the key k of the nested field f *)
Given(o, f, k) == f \in DOMAIN o /\ o[f] # Null /\ k \in DOMAIN o[f]

(* the blob gives no object: it is empty, not parsable, or the JSON of      *)
(* null, of a number or of a boolean                                        *)
NoObject(v) ==
    \/ IsText(v)
    \/ v = Null
    \/ "number" \in DOMAIN v
    \/ "boolean" \in DOMAIN v

(* the state right after loading, against the blob it was loaded from: the  *)
(* default state when there is no usable blob; otherwise (an object, or an  *)
(* array or a string, which have none of the fields of a state) the         *)
(* defaults for the missing ones of `fields` and for the missing keys of    *)
(* the nested fields, needs within 0..100, money and daysPlayed not         *)
(* negative                                                                 *)
BootRecoveryOn(fields) ==
    last = Loaded =>
        IF storage = <<>> \/ NoObject(storage[1])
        THEN state = defaultState
        ELSE LET o == IF "string" \in DOMAIN storage[1] \/ "array" \in DOMAIN storage[1]
                      THEN EmptyObj ELSE storage[1]
             IN  /\ \A f \in fields \ DOMAIN o : state[f] = defaultState[f]
                 /\ \A f \in NestedFields : \A k \in DOMAIN defaultState[f] :
                        ~Given(o, f, k) => state[f][k] = defaultState[f][k]
                 /\ \A n \in NeedIds : state.needs[n] \in 0..NEED_MAX
                 /\ state.money >= 0
                 /\ state.daysPlayed >= 0

(* C18, as stated: after loading, the state is the default state when the   *)
(* blob is missing, empty or not parsable, and otherwise EVERY missing      *)
(* top-level field, badges included, and every missing key of the nested    *)
(* fields has its default value, needs are within 0..100 and money and      *)
(* daysPlayed are not negative.                                             *)
BootRecoveryEveryField == BootRecoveryOn(DOMAIN defaultState)

(* C18, amended: as above for every top-level field other than badges; the  *)
(* badges after loading are the ones computed from the loaded               *)
(* ownedAccessories and daysPlayed, whether or not the blob has badges.     *)
BootRecovery ==
    /\ BootRecoveryOn(DOMAIN defaultState \ {"badges"})
    /\ last = Loaded => BadgesMatch(state)

(* loaded from a blob with only out-of-range needs and two collars: needs   *)
(* clamped and completed, money defaulted, badges raised by the collars     *)
BootedFromPartialBlob ==
    /\ last = Loaded
    /\ storage = <<Restrict(dirtyState, {"needs", "ownedAccessories"})>>
    /\ state.needs = [hunger |-> 0, thirst |-> 100, health |-> 50, fun |-> 0, sleep |-> 0]
    /\ state.ownedAccessories = [collar |-> 2, leash |-> 0, headband |-> 0]
    /\ state.money = 0
    /\ state.animalId = "dog"
    /\ state.badges.accessory_2
    /\ ~state.badges.accessory_4

(***************************************************************************)
(* The normalizer applied twice (gameStore.ts:145-165)                     *)
(***************************************************************************)
(* the objects normalize is given: the parsed blob and the current state *)
Candidates ==
    {state} \cup (IF storage = <<>> \/ IsText(storage[1]) \/ storage[1] = Null THEN {}
                   ELSE {storage[1]})

(* C19: normalizing a candidate twice gives what normalizing it once gives, *)
(* for the empty object, objects with missing or null nested fields,        *)
(* out-of-range needs, negative money or daysPlayed, and valid states.      *)
NormalizerIdempotent ==
    \A x \in Candidates : normalize(normalize(x)) = normalize(x)

(* loaded from the blob whose every field is off: normalizing changed it,   *)
(* and the loaded state has the repaired values                             *)
BootedFromDirtyBlob ==
    /\ last = Loaded
    /\ storage = <<dirtyState>>
    /\ normalize(dirtyState) # dirtyState
    /\ state.money = 0
    /\ state.daysPlayed = 0
    /\ state.needs.thirst = NEED_MAX
    /\ state.needs.fun = 0
    /\ state.ownedPets.dragon

(***************************************************************************)
(* Two tabs on one storage (gameStore.ts:222-247)                          *)
(***************************************************************************)
(* the step hands the turn to the other tab *)
TabSwitch == peer' # peer

(* the step is a persist() of the running instance *)
CommitStep == peer' = peer /\ commits' = commits + 1

(* the fields the other tab may have changed in the blob *)
Progress(s) == <<s.money, s.daysPlayed, s.ownedAccessories>>

(* C20: with two instances on one storage, stepping in any interleaving,    *)
(* every commit makes the blob the state of the instance that commits and   *)
(* no other step touches the blob, so the blob is always the state of the   *)
(* most recent committer; an instance that takes its turn continues from    *)
(* the state it has in memory, whatever the blob has become, and what it    *)
(* commits keeps its own money, daysPlayed and accessories where the call   *)
(* does not change them: what the other instance stored is overwritten.     *)
LastWriteWins ==
    [][/\ CommitStep => storage' = <<state'>>
       /\ ~CommitStep => storage' = storage
       /\ TabSwitch => state' = peer[1].state /\ peer'[1].state = state
       /\ (~TabSwitch /\ ~CommitStep) => state' = state
       /\ ~TabSwitch => peer' = peer
       /\ (CommitStep /\ CallStep("setSelectedPet")) => Progress(state') = Progress(state)
       /\ (CommitStep /\ CallStep("setNeed")) => Progress(state') = Progress(state)
       /\ (CommitStep /\ CallStep("applyMoneyDelta")) =>
              /\ state'.money = state.money + 3
              /\ state'.daysPlayed = state.daysPlayed
              /\ state'.ownedAccessories = state.ownedAccessories
       /\ (CommitStep /\ CallStep("addOwnedAccessory")) =>
              /\ state'.ownedAccessories["collar"] = state.ownedAccessories["collar"] + 1
              /\ state'.money = state.money
              /\ state'.daysPlayed = state.daysPlayed
       /\ (CommitStep /\ Len(stack') = Len(stack)) =>
              /\ state'.daysPlayed = state.daysPlayed + 1
              /\ state'.money = state.money
              /\ state'.ownedAccessories = state.ownedAccessories
      ]_vars

(* the other tab earned money, bought a collar and finished a day, all      *)
(* stored; then this tab, which has none of it, selected the cat: the blob  *)
(* is this tab's state and the other tab's progress is gone from it         *)
OtherTabsProgressOverwritten ==
    /\ peer # <<>>
    /\ stack = <<>>
    /\ peer[1].stack = <<>>
    /\ peer[1].state.money = 3
    /\ peer[1].state.daysPlayed = 1
    /\ peer[1].state.ownedAccessories["collar"] = 1
    /\ state.animalId = "cat"
    /\ state.money = 0
    /\ state.daysPlayed = 0
    /\ state.ownedAccessories["collar"] = 0
    /\ storage = <<state>>

(***************************************************************************)
(* Owned accessories (gameStore.ts:377-388)                                *)
(***************************************************************************)
(* C21 as stated: a call addOwnedAccessory(id, count) with floor(count)    *)
(* >= 1 raises the owned count of id by exactly floor(count) and leaves the *)
(* other counts as they are, and no step of any mutator call lowers an      *)
(* owned count.                                                             *)
AccessoryAddsExactly ==
    [][/\ \A a \in AccessoryIds :
             state'.ownedAccessories[a] >= state.ownedAccessories[a]
       /\ CallStep("addOwnedAccessory") =>
             LET id == stack'[Len(stack')].arg[1]
                 count == Whole(stack'[Len(stack')].arg[2])
             IN  count >= 1 =>
                    \A a \in AccessoryIds :
                       state'.ownedAccessories[a] =
                           state.ownedAccessories[a] + (IF a = id THEN count ELSE 0)
      ]_vars

(* C21: a call addOwnedAccessory(id, count) with floor(count) >= 1 sets the *)
(* owned count of id to max(0, old + floor(count)), which is old +          *)
(* floor(count) whenever the old count is not negative, and leaves the      *)
(* other counts as they are; a call with floor(count) <= 0 leaves all of    *)
(* them; a count that is not negative never becomes negative, and no step   *)
(* of any mutator call lowers an owned count.                               *)
AccessoryCountsGrow ==
    [][/\ \A a \in AccessoryIds :
             /\ state'.ownedAccessories[a] >= state.ownedAccessories[a]
             /\ state.ownedAccessories[a] >= 0 => state'.ownedAccessories[a] >= 0
       /\ CallStep("addOwnedAccessory") =>
             LET id == stack'[Len(stack')].arg[1]
                 count == Whole(stack'[Len(stack')].arg[2])
             IN  \A a \in AccessoryIds :
                    /\ state'.ownedAccessories[a] =
                          IF a = id /\ count >= 1
                          THEN Max(0, state.ownedAccessories[a] + count)
                          ELSE state.ownedAccessories[a]
                    /\ (a = id /\ count >= 1 /\ state.ownedAccessories[a] >= 0) =>
                          state'.ownedAccessories[a] = state.ownedAccessories[a] + count
      ]_vars

(* the store was booted from a blob with -2 collars; a collar and a half    *)
(* was added, and the store holds no collar: the count has grown by 2       *)
NegativeCountRaisedToZero ==
    /\ ReadyToReturn
    /\ Top.op = "addOwnedAccessory"
    /\ Top.arg = <<"collar", Half(1)>>
    /\ Top.entry.ownedAccessories = [collar |-> -2, leash |-> 2, headband |-> 0]
    /\ state.ownedAccessories = [collar |-> 0, leash |-> 2, headband |-> 0]
    /\ storage = <<state>>

(***************************************************************************)
(* bumpNeed against setNeed (gameStore.ts:339-365)                         *)
(***************************************************************************)
(* what setNeed(need, value) leaves behind when called in state `entry`     *)
(* with the stored pet ages `ages`: the states it commits, in order, the    *)
(* last of which is the state and the blob, and the pet ages                *)
SetNeedOutcome(entry, ages, need, value) ==
    LET nextNeeds == clampNeeds([entry.needs EXCEPT ![need] = value])
        first == persistNext([entry EXCEPT !.needs = nextNeeds])
        crosses == ~allNeedsComplete(entry.needs) /\ allNeedsComplete(nextNeeds)
        second == persistNext([first EXCEPT !.daysPlayed = first.daysPlayed + 1,
                                            !.needs = defaultNeeds])
    IN  [committed |-> IF crosses THEN <<first, second>> ELSE <<first>>,
         state |-> IF crosses THEN second ELSE first,
         petAges |-> IF crosses THEN bumpAge(ages, first.animalId) ELSE ages]

(* the running call has left behind exactly `out` *)
LeftBehind(out) ==
    /\ Top.committed = out.committed
    /\ state = out.state
    /\ storage = <<out.state>>
    /\ petAges = out.petAges
    /\ Len(Top.got) = Len(listeners)
    /\ \A j \in 1..Len(Top.got) : Top.got[j].st = out.state

(* C22: when a bumpNeed(need, delta) call is about to return, the commits   *)
(* it made, the state, the blob, the pet ages and what the listeners were   *)
(* handed are those of setNeed(need, value of need at the call + delta),    *)
(* the day advance of a saturating bump included; and a setNeed call        *)
(* leaves behind the same function of its arguments.                        *)
BumpNeedIsSetNeed ==
    (ReadyToReturn /\ ~Top.nested) =>
        /\ Top.op = "bumpNeed" =>
              LeftBehind(SetNeedOutcome(Top.entry, Top.entryAges, Top.arg[1],
                                        Top.entry.needs[Top.arg[1]] + Top.arg[2]))
        /\ Top.op = "setNeed" =>
              LeftBehind(SetNeedOutcome(Top.entry, Top.entryAges, Top.arg[1], Top.arg[2]))

(* bumpNeed("sleep", +50) from sleep 99 with the other needs at 100: two    *)
(* commits, the day advanced, the needs reset, the listener told            *)
SaturatingBumpAdvanced ==
    /\ ReadyToReturn
    /\ Top.op = "bumpNeed"
    /\ Top.arg = <<"sleep", 50>>
    /\ Top.entry.needs = [saturatedNeeds EXCEPT !["sleep"] = 99]
    /\ Len(Top.committed) = 2
    /\ state.daysPlayed = Top.entry.daysPlayed + 1
    /\ state.needs = defaultNeeds
    /\ petAges[Top.entry.animalId] = (IF Top.entry.animalId \in DOMAIN Top.entryAges
                                       THEN Top.entryAges[Top.entry.animalId] ELSE 0) + 1
    /\ Len(Top.got) = 1

(***************************************************************************)
(* Pet selection (gameStore.ts:285-287)                                    *)
(***************************************************************************)
(* C23: when a setSelectedPet(id) call is about to return, for any pet      *)
(* identifier and whether or not ownedPets[id] is true, it has committed    *)
(* once, the state is the state at the call with animalId = id and nothing  *)
(* else changed, and the stored pet ages are as they were.                  *)
SelectedPetFrame ==
    (ReadyToReturn /\ Top.op = "setSelectedPet" /\ ~Top.nested) =>
        /\ state = [Top.entry EXCEPT !.animalId = Top.arg[1]]
        /\ Top.committed = <<state>>
        /\ storage = <<state>>
        /\ petAges = Top.entryAges

(* the snake, which is not owned, was selected while stored ages exist:     *)
(* animalId is not an owned pet                                             *)
UnownedPetSelected ==
    /\ ReadyToReturn
    /\ Top.op = "setSelectedPet"
    /\ Top.arg[1] = "snake"
    /\ ~state.ownedPets["snake"]
    /\ state.animalId = "snake"
    /\ state.ownedPets = Top.entry.ownedPets
    /\ state.daysPlayed = 1
    /\ petAges # EmptyObj

(***************************************************************************)
(* Play on the map page (Articles.tsx:445-616)                             *)
(***************************************************************************)
(* the needs a button raises in the store *)
Raises(b) == {b.calls[k].id : k \in {j \in 1..Len(b.calls) :
                                        b.calls[j].op = "bumpNeed" /\ b.calls[j].n > 0}}

(* C24: play can advance the day: in every state, each need of the store    *)
(* that is below 100 has an action button whose effects raise it, so that   *)
(* from the default state, where all five are 0, they can all reach 100.    *)
PlayRaisesEveryNeed ==
    \A n \in NeedIds :
        state.needs[n] < NEED_MAX => \E b \in actionButtons : n \in Raises(b)

(* what the pet-ages key holds for a pet *)
Age(ages, p) == IF p \in DOMAIN ages THEN ages[p] ELSE 0

(* C25: whatever the pages and the store's day advance do in whatever       *)
(* order, the persisted age of a pet never decreases, so no increment of a  *)
(* day advance is lost.                                                     *)
PetAgesOnlyGrow ==
    [][\A p \in AnimalIds : Age(petAges', p) >= Age(petAges, p)]_vars

(* the entry of page.finished for the action the page is running *)
FinishedNow ==
    [label |-> page.action[1].label, startedAt |-> page.action[1].startedAt, at |-> page.now]

(* C26: the map page runs at most one action at a time and a running       *)
(* action is never replaced by another click; onFinish is called only when  *)
(* the action's duration has elapsed, and at most once for a started        *)
(* action; while the page stays mounted a started action eventually         *)
(* finishes and the action in progress is cleared.                          *)
ActionTimer ==
    /\ [](Len(page.action) <= 1)
    /\ [][page.action # <<>> /\ page.action' # page.action =>
            /\ page.action' = <<>>
            /\ page'.mounted = "map" => page'.finished = Append(page.finished, FinishedNow)]_vars
    /\ [][page'.finished # page.finished /\ page'.mounted = "map" =>
            /\ page.action # <<>>
            /\ page.action' = <<>>
            /\ page'.finished = Append(page.finished, FinishedNow)]_vars
    /\ [](\A k \in 1..Len(page.finished) :
            /\ page.finished[k].at - page.finished[k].startedAt
                 >= (CHOOSE b \in actionButtons : b.label = page.finished[k].label).durationMs
            /\ \A j \in 1..Len(page.finished) :
                  page.finished[j].startedAt = page.finished[k].startedAt => j = k)
    /\ (page.action # <<>>) ~> (page.action = <<>>)

(* a second action is running after the first one has finished *)
SecondActionRunning ==
    /\ page.action # <<>>
    /\ Len(page.finished) = 1
    /\ page.finished[1].at >= page.finished[1].startedAt + 2400
    /\ page.now > page.action[1].startedAt

(* the transactions of the cycle reward the store holds, and the one the    *)
(* page is about to ask for                                                 *)
CycleRewards ==
    Cardinality({k \in 1..Len(state.transactions) :
                    state.transactions[k].category = "Cycle Reward"})
    + Cardinality({k \in 1..Len(page.todo) :
                    page.todo[k].op = "applyMoneyDelta"
                    /\ page.todo[k].meta = [category |-> "Cycle Reward", note |-> "30-minute reward"]})

(* a step of a cycle: the page applies it, the reward is asked for, or the  *)
(* store is at work on the reward                                           *)
CycleStep ==
    \/ page.mounted = "map" /\ page'.mounted = "map" /\ page'.cycleStartMs # page.cycleStartMs
    \/ /\ page.todo # <<>>
       /\ Head(page.todo) = Pay(100, "Cycle Reward", "30-minute reward")
    \/ /\ stack # <<>>
       /\ stack[1].op = "applyMoneyDelta"
       /\ stack[1].arg = <<100, 0>>

(* 30 minutes have passed since the cycle of the mounted page started *)
CycleDue == page.mounted = "map" /\ page.now - page.cycleStartMs >= CYCLE_MS

(* C27: the cycle of the map page is applied when 30 minutes have passed    *)
(* since cycleStartMs, only then, and then once: the four needs of the page *)
(* decay and stay within 0..100, one applyMoneyDelta(+100) of category      *)
(* 'Cycle Reward' is made, and the next cycle starts at that moment, so     *)
(* there is never more than one reward for 30 minutes of the clock; no      *)
(* step of a cycle changes the store's daysPlayed or needs.                 *)
CycleReward ==
    /\ CycleDue ~> ~CycleDue
    /\ [][page.mounted = "map" /\ page'.mounted = "map"
            /\ (page'.cycleStartMs # page.cycleStartMs \/ CycleRewards' # CycleRewards) =>
            /\ page.now - page.cycleStartMs >= CYCLE_MS
            /\ page'.cycleStartMs = page.now
            /\ CycleRewards' = CycleRewards + 1
            /\ page'.todo = <<Pay(100, "Cycle Reward", "30-minute reward")>>
            /\ \A n \in DOMAIN page.needs :
                  page'.needs[n] = Max(0, page.needs[n] - cycleDecay[n])]_vars
    /\ [](\A n \in DOMAIN page.needs : page.needs[n] \in 0..100)
    /\ [](CycleRewards * CYCLE_MS <= page.now)
    /\ [][CycleStep => /\ state'.needs = state.needs
                       /\ state'.daysPlayed = state.daysPlayed]_vars

(* four cycles have been applied and rewarded, the last one has taken the   *)
(* hunger of the page to 0, and the store has advanced a day in between     *)
FourCyclesRewarded ==
    /\ CycleRewards = 4
    /\ page.todo = <<>>
    /\ stack = <<>>
    /\ page.needs.hunger = 0
    /\ state.money >= 400
    /\ state.daysPlayed = 1

(* the sum of the amounts of the logged transactions of a type *)
RECURSIVE SumOf(_, _)
SumOf(txs, type) ==
    IF txs = <<>> THEN 0
    ELSE (IF Head(txs).type = type THEN Head(txs).amount ELSE 0) + SumOf(Tail(txs), type)

(* the balance the ledger gives after its transaction k (the newest is the  *)
(* first): an expense cannot take it below 0                                *)
RECURSIVE BalanceAfter(_, _)
BalanceAfter(txs, k) ==
    IF k > Len(txs) THEN 0
    ELSE IF txs[k].type = "income"
         THEN BalanceAfter(txs, k + 1) + txs[k].amount
         ELSE Max(0, BalanceAfter(txs, k + 1) - txs[k].amount)

(* an applyMoneyDelta call has asked for more than the balance of the moment *)
Overspent ==
    \E k \in 1..Len(state.transactions) :
        /\ state.transactions[k].type = "expense"
        /\ state.transactions[k].category = "Game Spent"
        /\ state.transactions[k].amount > BalanceAfter(state.transactions, k + 1)

(* C28: from the default state, with applyMoneyDelta and purchasePremiumPet *)
(* only and fewer than 250 transactions logged, money is at least the sum   *)
(* of the income amounts minus the sum of the expense amounts, and equal to *)
(* it exactly when no applyMoneyDelta call has asked to spend more than the *)
(* balance at that moment.                                                  *)
LedgerConsistency ==
    txCreated < TX_CAP =>
        LET net == SumOf(state.transactions, "income") - SumOf(state.transactions, "expense")
        IN  /\ Len(state.transactions) = txCreated
            /\ state.money >= net
            /\ state.money = net <=> ~Overspent

(* money is above the ledger: after an overspending call there has been    *)
(* income and a pet was bought                                              *)
MoneyAboveLedger ==
    /\ stack = <<>>
    /\ Overspent
    /\ state.ownedPets["dragon"]
    /\ state.money > 0
    /\ state.money > SumOf(state.transactions, "income") - SumOf(state.transactions, "expense")

(* C29: when the store started with needs that are not all 100 and no      *)
(* listener calls a mutator, the needs are never all 100 once a mutator has *)
(* returned; all needs are 100 only while the listeners are notified of the *)
(* first of the two commits of a setNeed or bumpNeed call that completes    *)
(* them, and no other commit hands a listener such a state.                 *)
SaturationTransient ==
    /\ stack = <<>> => ~allNeedsComplete(state.needs)
    /\ allNeedsComplete(state.needs) =>
          /\ Len(stack) = 1
          /\ IsNeedCall(Top)
          /\ ~allNeedsComplete(Top.entry.needs)
          /\ Top.cont = "advance"
          /\ Len(Top.committed) = 1
    /\ \A k \in 1..Len(stack) : \A j \in 1..Len(stack[k].got) :
          allNeedsComplete(stack[k].got[j].st.needs) =>
              /\ IsNeedCall(stack[k])
              /\ stack[k].got[j].st = stack[k].committed[1]
              /\ ~allNeedsComplete(stack[k].entry.needs)

(* the listener has been handed the complete needs, which are the state of *)
(* the store until the day advances                                         *)
ListenerSawSaturation ==
    /\ Len(stack) = 1
    /\ Top.op = "bumpNeed"
    /\ ~Top.adv
    /\ Len(Top.got) = 1
    /\ Top.got[1].cb = "ui"
    /\ allNeedsComplete(Top.got[1].st.needs)
    /\ state = Top.got[1].st
    /\ state.daysPlayed = Top.entry.daysPlayed

(* C30: while a commit whose write has succeeded is being delivered, the    *)
(* persisted blob equals the state in memory, and a store booted from the   *)
(* blob has that very state: a reload loses nothing and changes nothing.    *)
PersistBootRoundTrip ==
    (stack # <<>> /\ Top.committed # <<>> /\ "game" \notin quota) =>
        /\ storage = <<state>>
        /\ bootState(storage) = state

(* the page was reloaded after a purchase, and the first call after the     *)
(* reload has committed: the store had booted with the dragon and the       *)
(* logged purchase, and what it has now written boots to its state again    *)
CommittedAfterReload ==
    /\ ReadyToReturn
    /\ Top.prev = Loaded
    /\ Top.entry.ownedPets["dragon"]
    /\ \E k \in 1..Len(Top.entry.transactions) :
          Top.entry.transactions[k].category = "Pet Purchase"
    /\ Top.committed # <<>>
    /\ state # Top.entry
    /\ storage = <<state>>
    /\ bootState(storage) = state

====
